---- MODULE Spec2Model ----
(***************************************************************************)
(* vault-registry-proxy: the authentication middleware, the credential     *)
(* cache, the credential resolver and the request forwarder, as a state    *)
(* machine.  Go strings are TLA+ strings; the Go library calls the code    *)
(* makes on them (strings.Split, strings.TrimSpace, Request.BasicAuth...)  *)
(* are operators that compute what the library computes.                   *)
(***************************************************************************)
EXTENDS Integers, Sequences, FiniteSets, TLC

(***************************************************************************)
(* Bounds of the model.                                                    *)
(***************************************************************************)
\* requests the proxy serves in one behaviour (each may overlap the others)
MaxReq == 2
\* the clock stops here (minutes); past DefaultCleanupInterval, so the sweep runs
MaxTime == 11
\* generations of the secrets held by the secret store (1 = never rotated)
MaxVersion == 2

(***************************************************************************)
(* Program constants.  Time is counted in minutes.                         *)
(***************************************************************************)
DefaultCacheTTL == 5
DefaultCleanupInterval == 10

(***************************************************************************)
(* Go's strings package, as far as the code calls it.                      *)
(***************************************************************************)
HasPrefix(s, p) == Len(s) >= Len(p) /\ SubSeq(s, 1, Len(p)) = p

HasSuffix(s, p) == Len(s) >= Len(p) /\ SubSeq(s, Len(s) - Len(p) + 1, Len(s)) = p

TrimPrefix(s, p) == IF HasPrefix(s, p) THEN SubSeq(s, Len(p) + 1, Len(s)) ELSE s

TrimSuffix(s, p) == IF HasSuffix(s, p) THEN SubSeq(s, 1, Len(s) - Len(p)) ELSE s

\* strings.Index for a one-byte separator, 1-based; 0 when sep does not occur
RECURSIVE IndexFrom(_, _, _)
IndexFrom(s, sep, i) ==
    IF i > Len(s) THEN 0
    ELSE IF SubSeq(s, i, i) = sep THEN i
    ELSE IndexFrom(s, sep, i + 1)

Index(s, sep) == IndexFrom(s, sep, 1)

Contains(s, sep) == Index(s, sep) # 0

\* strings.SplitN(s, sep, n) for n >= 1: at most n parts, the last one the remainder
RECURSIVE SplitN(_, _, _)
SplitN(s, sep, n) ==
    LET i == Index(s, sep)
    IN  IF n <= 1 \/ i = 0 THEN <<s>>
        ELSE <<SubSeq(s, 1, i - 1)>> \o SplitN(SubSeq(s, i + 1, Len(s)), sep, n - 1)

\* strings.Split(s, sep): every part
Split(s, sep) == SplitN(s, sep, Len(s) + 1)

\* strings.Join
RECURSIVE Join(_, _)
Join(parts, sep) ==
    IF Len(parts) = 0 THEN ""
    ELSE IF Len(parts) = 1 THEN parts[1]
    ELSE parts[1] \o sep \o Join(Tail(parts), sep)

IsSpace(c) == c \in {" ", "\t", "\n", "\r", "\f"}

\* strings.TrimSpace
RECURSIVE TrimLeft(_)
TrimLeft(s) ==
    IF Len(s) > 0 /\ IsSpace(SubSeq(s, 1, 1)) THEN TrimLeft(SubSeq(s, 2, Len(s))) ELSE s

RECURSIVE TrimRight(_)
TrimRight(s) ==
    IF Len(s) > 0 /\ IsSpace(SubSeq(s, Len(s), Len(s)))
    THEN TrimRight(SubSeq(s, 1, Len(s) - 1)) ELSE s

TrimSpace(s) == TrimRight(TrimLeft(s))

(***************************************************************************)
(* HTTP Basic credentials (net/http's SetBasicAuth and BasicAuth).         *)
(* Base64 is an invertible encoding: b64 wraps the text in a marker that   *)
(* only the encoder produces, and decoding fails on any other text.        *)
(***************************************************************************)
b64Encode(s) == "b64<" \o s \o ">"

b64Decode(x) ==
    IF HasPrefix(x, "b64<") /\ HasSuffix(x, ">")
    THEN [ok |-> TRUE, s |-> SubSeq(x, 5, Len(x) - 1)]
    ELSE [ok |-> FALSE, s |-> ""]

\* Request.SetBasicAuth: "Basic " + base64(username + ":" + password)
basicAuthValue(username, password) == "Basic " \o b64Encode(username \o ":" \o password)

\* Request.BasicAuth: the scheme, the decoding, the cut at the FIRST colon
parseBasicAuth(authz) ==
    LET dec == b64Decode(TrimPrefix(authz, "Basic "))
        i   == Index(dec.s, ":")
    IN  IF HasPrefix(authz, "Basic ") /\ dec.ok /\ i # 0
        THEN [ok |-> TRUE, username |-> SubSeq(dec.s, 1, i - 1),
              password |-> SubSeq(dec.s, i + 1, Len(dec.s))]
        ELSE [ok |-> FALSE, username |-> "", password |-> ""]

(***************************************************************************)
(* pkg/auth/config.go: the locator carried in the Basic-auth username.     *)
(***************************************************************************)
ErrNone == "nil"
ErrInvalidUsernameFormat ==
    "invalid username format, expected: <registry_type>;<vault_path>;<registry_url>"
ErrUnsupportedRegistryType == "unsupported registry type"

NoRegistryConfig == [Type |-> "", VaultPath |-> "", RegistryURL |-> ""]

isValidRegistryType(registryType) == registryType \in {"docker", "ecr", "gcr"}

\* a ParseUsername that splits on every semicolon
ParseUsername_SplitsEvery(username) ==
    LET parts == Split(username, ";")
    IN  IF Len(parts) # 3 THEN [err |-> ErrInvalidUsernameFormat, cfg |-> NoRegistryConfig]
        ELSE LET registryType == TrimSpace(parts[1])
                 vaultPath    == TrimSpace(parts[2])
                 registryURL  == TrimSpace(parts[3])
             IN  IF registryType = "" \/ vaultPath = "" \/ registryURL = ""
                 THEN [err |-> ErrInvalidUsernameFormat, cfg |-> NoRegistryConfig]
                 ELSE IF ~isValidRegistryType(registryType)
                 THEN [err |-> ErrUnsupportedRegistryType, cfg |-> NoRegistryConfig]
                 ELSE [err |-> ErrNone,
                       cfg |-> [Type |-> registryType, VaultPath |-> vaultPath,
                                RegistryURL |-> registryURL]]

\* a ParseUsername that does not trim the parts
ParseUsername_NoTrim(username) ==
    LET parts == SplitN(username, ";", 3)
    IN  IF Len(parts) # 3 THEN [err |-> ErrInvalidUsernameFormat, cfg |-> NoRegistryConfig]
        ELSE IF parts[1] = "" \/ parts[2] = "" \/ parts[3] = ""
        THEN [err |-> ErrInvalidUsernameFormat, cfg |-> NoRegistryConfig]
        ELSE IF ~isValidRegistryType(parts[1])
        THEN [err |-> ErrUnsupportedRegistryType, cfg |-> NoRegistryConfig]
        ELSE [err |-> ErrNone,
              cfg |-> [Type |-> parts[1], VaultPath |-> parts[2], RegistryURL |-> parts[3]]]

\* a ParseUsername that accepts an empty secret path
ParseUsername_EmptyPathAllowed(username) ==
    LET parts == SplitN(username, ";", 3)
    IN  IF Len(parts) # 3 THEN [err |-> ErrInvalidUsernameFormat, cfg |-> NoRegistryConfig]
        ELSE LET registryType == TrimSpace(parts[1])
                 vaultPath    == TrimSpace(parts[2])
                 registryURL  == TrimSpace(parts[3])
             IN  IF registryType = "" \/ registryURL = ""
                 THEN [err |-> ErrInvalidUsernameFormat, cfg |-> NoRegistryConfig]
                 ELSE IF ~isValidRegistryType(registryType)
                 THEN [err |-> ErrUnsupportedRegistryType, cfg |-> NoRegistryConfig]
                 ELSE [err |-> ErrNone,
                       cfg |-> [Type |-> registryType, VaultPath |-> vaultPath,
                                RegistryURL |-> registryURL]]

\* a ParseUsername that validates the registry type before it looks for empty parts
ParseUsername_TypeFirst(username) ==
    LET parts == SplitN(username, ";", 3)
    IN  IF Len(parts) # 3 THEN [err |-> ErrInvalidUsernameFormat, cfg |-> NoRegistryConfig]
        ELSE LET registryType == TrimSpace(parts[1])
                 vaultPath    == TrimSpace(parts[2])
                 registryURL  == TrimSpace(parts[3])
             IN  IF ~isValidRegistryType(registryType)
                 THEN [err |-> ErrUnsupportedRegistryType, cfg |-> NoRegistryConfig]
                 ELSE IF registryType = "" \/ vaultPath = "" \/ registryURL = ""
                 THEN [err |-> ErrInvalidUsernameFormat, cfg |-> NoRegistryConfig]
                 ELSE [err |-> ErrNone,
                       cfg |-> [Type |-> registryType, VaultPath |-> vaultPath,
                                RegistryURL |-> registryURL]]

ParseUsername(username) ==
    LET parts == SplitN(username, ";", 3)
    IN  IF Len(parts) # 3 THEN [err |-> ErrInvalidUsernameFormat, cfg |-> NoRegistryConfig]
        ELSE LET registryType == TrimSpace(parts[1])
                 vaultPath    == TrimSpace(parts[2])
                 registryURL  == TrimSpace(parts[3])
             IN  IF registryType = "" \/ vaultPath = "" \/ registryURL = ""
                 THEN [err |-> ErrInvalidUsernameFormat, cfg |-> NoRegistryConfig]
                 ELSE IF ~isValidRegistryType(registryType)
                 THEN [err |-> ErrUnsupportedRegistryType, cfg |-> NoRegistryConfig]
                 ELSE [err |-> ErrNone,
                       cfg |-> [Type |-> registryType, VaultPath |-> vaultPath,
                                RegistryURL |-> registryURL]]

(***************************************************************************)
(* HTTP messages.  A header is a function from the names present to their  *)
(* values; Header.Get answers "" for a name that is absent.                *)
(***************************************************************************)
NoHeader == [n \in {} |-> ""]

HeaderGet(h, name) == IF name \in DOMAIN h THEN h[name] ELSE ""

HeaderSet(h, name, value) ==
    [n \in DOMAIN h \cup {name} |-> IF n = name THEN value ELSE h[n]]

\* Request.Cookie(name): the first "name=value" pair of the Cookie header
RECURSIVE findCookie(_, _)
findCookie(pairs, name) ==
    IF Len(pairs) = 0 THEN [ok |-> FALSE, Value |-> ""]
    ELSE LET kv == SplitN(TrimSpace(pairs[1]), "=", 2)
         IN  IF Len(kv) = 2 /\ kv[1] = name THEN [ok |-> TRUE, Value |-> kv[2]]
             ELSE findCookie(Tail(pairs), name)

Cookie(h, name) ==
    IF "Cookie" \in DOMAIN h THEN findCookie(Split(h["Cookie"], ";"), name)
    ELSE [ok |-> FALSE, Value |-> ""]

NoBody == [kind |-> "none", code |-> "", message |-> ""]

\* what the client has been sent so far; status 0: nothing yet.  writes counts the
\* WriteHeader calls made on the ResponseWriter (only the first one takes effect);
\* appended is the text handed to Write after the first response's body
NoResponse ==
    [status |-> 0, header |-> NoHeader, body |-> NoBody, writes |-> 0, appended |-> ""]

\* ResponseWriter.WriteHeader followed by a body write
writeResponse(w, statusCode, body) ==
    [w EXCEPT !.status   = IF w.writes = 0 THEN statusCode ELSE @,
              !.writes   = @ + 1,
              !.body     = IF w.writes = 0 THEN body ELSE @,
              !.appended = IF w.writes = 0 THEN @ ELSE @ \o body.message]

\* http.Error: plain text, the status, the error text as the body
httpError(w, text, statusCode) ==
    writeResponse(
        [w EXCEPT !.header = IF w.writes = 0
                             THEN HeaderSet(HeaderSet(w.header, "Content-Type",
                                                      "text/plain; charset=utf-8"),
                                            "X-Content-Type-Options", "nosniff")
                             ELSE @],
        statusCode, [kind |-> "text", code |-> "", message |-> text])

(***************************************************************************)
(* pkg/auth/middleware.go                                                  *)
(***************************************************************************)
DefaultRealm == "https://auth.docker.io/token"
DefaultService == "registry.docker.io"
DefaultRegistry == "registry-1.docker.io"
APIVersionHeader == "Docker-Distribution-API-Version"

getActionFromEndpoint(endpoint, method) ==
    IF endpoint = "tags" \/ HasPrefix(endpoint, "tags/") THEN "pull"
    ELSE IF HasPrefix(endpoint, "manifests/") THEN
        (IF method = "GET" THEN "pull"
         ELSE IF method = "PUT" THEN "push"
         ELSE IF method = "DELETE" THEN "delete"
         ELSE "pull")
    ELSE IF HasPrefix(endpoint, "blobs/") THEN
        (IF method = "GET" THEN "pull"
         ELSE IF method = "DELETE" THEN "delete"
         ELSE "pull")
    ELSE IF endpoint = "uploads" \/ HasPrefix(endpoint, "uploads/") THEN "push"
    ELSE "pull"

\* an extractScope without the catalog case
extractScope_NoCatalogCase(urlPath, method) ==
    IF ~HasPrefix(urlPath, "/v2/") THEN ""
    ELSE LET path == TrimPrefix(urlPath, "/v2/")
         IN  IF ~Contains(path, "/") THEN ""
             ELSE LET parts == Split(path, "/")
                  IN  "repository:" \o Join(SubSeq(parts, 1, Len(parts) - 1), "/") \o ":"
                          \o getActionFromEndpoint(parts[Len(parts)], method)

extractScope(urlPath, method) ==
    IF ~HasPrefix(urlPath, "/v2/") THEN ""
    ELSE LET path == TrimPrefix(urlPath, "/v2/")
         IN  IF path = "_catalog" THEN "registry:catalog:*"
             ELSE IF ~Contains(path, "/") THEN ""
             ELSE LET parts == Split(path, "/")
                  IN  IF Len(parts) < 2 THEN ""
                      ELSE LET repoName == Join(SubSeq(parts, 1, Len(parts) - 1), "/")
                               endpoint == parts[Len(parts)]
                           IN  "repository:" \o repoName \o ":"
                                   \o getActionFromEndpoint(endpoint, method)

\* Middleware.writeErrorResponse: the JSON error body
mwWriteErrorResponse(w, code, message, statusCode) ==
    writeResponse([w EXCEPT !.header = HeaderSet(@, "Content-Type", "application/json")],
                  statusCode, [kind |-> "json", code |-> code, message |-> message])

challengeHeader(scope) ==
    "Bearer realm=\"" \o DefaultRealm \o "\",service=\"" \o DefaultService \o "\""
        \o (IF scope # "" THEN ",scope=\"" \o scope \o "\"" ELSE "")

challengeAuth(w, r) ==
    mwWriteErrorResponse(
        [w EXCEPT !.header = HeaderSet(HeaderSet(@, "WWW-Authenticate",
                                                 challengeHeader(extractScope(r.path, r.method))),
                                       APIVersionHeader, "registry/2.0")],
        "UNAUTHORIZED", "authentication required", 401)

\* the cookie consulted before the override header
extractRegistryURL_CookieFirst(r) ==
    IF Cookie(r.header, "registry-url").ok THEN Cookie(r.header, "registry-url").Value
    ELSE IF HeaderGet(r.header, "X-Registry-URL") # ""
    THEN HeaderGet(r.header, "X-Registry-URL")
    ELSE DefaultRegistry

extractRegistryURL(r) ==
    IF HeaderGet(r.header, "X-Registry-URL") # "" THEN HeaderGet(r.header, "X-Registry-URL")
    ELSE IF Cookie(r.header, "registry-url").ok THEN Cookie(r.header, "registry-url").Value
    ELSE DefaultRegistry

NoBearer == [Token |-> "", RegistryURL |-> ""]
NoAuthHeader == [Username |-> "", Password |-> ""]

\* what the middleware hands on: next tells whether the endpoint handler is invoked,
\* ctx is the value it put in the request context ("bearer", "auth" or none)
mwResult(next, ctx, bearer, auth, w) ==
    [next |-> next, ctx |-> ctx, bearer |-> bearer, auth |-> auth, w |-> w]

\* a handleBearerAuth that takes the extracted URL as it is
handleBearerAuth_NoDefault(w, r) ==
    LET token == TrimPrefix(HeaderGet(r.header, "Authorization"), "Bearer ")
    IN  IF token = "" THEN mwResult(FALSE, "none", NoBearer, NoAuthHeader, challengeAuth(w, r))
        ELSE mwResult(TRUE, "bearer",
                      [Token |-> token, RegistryURL |-> extractRegistryURL(r)],
                      NoAuthHeader, w)

handleBearerAuth(w, r) ==
    LET token == TrimPrefix(HeaderGet(r.header, "Authorization"), "Bearer ")
        url   == extractRegistryURL(r)
    IN  IF token = "" THEN mwResult(FALSE, "none", NoBearer, NoAuthHeader, challengeAuth(w, r))
        ELSE mwResult(TRUE, "bearer",
                      [Token |-> token,
                       RegistryURL |-> IF url = "" THEN DefaultRegistry ELSE url],
                      NoAuthHeader, w)

\* a handleBasicAuth that hands an undecodable header on to the handler
handleBasicAuth_NoChallenge(w, r) ==
    LET ba == parseBasicAuth(HeaderGet(r.header, "Authorization"))
    IN  IF ba.ok /\ ParseUsername(ba.username).err # ErrNone
        THEN mwResult(FALSE, "none", NoBearer, NoAuthHeader,
                      mwWriteErrorResponse(w, "UNAUTHORIZED", "Invalid username format", 401))
        ELSE mwResult(TRUE, "auth", NoBearer,
                      [Username |-> ba.username, Password |-> ba.password], w)

\* a handleBasicAuth that leaves the validation of the username to the handler
handleBasicAuth_NoValidation(w, r) ==
    LET ba == parseBasicAuth(HeaderGet(r.header, "Authorization"))
    IN  IF ~ba.ok THEN mwResult(FALSE, "none", NoBearer, NoAuthHeader, challengeAuth(w, r))
        ELSE mwResult(TRUE, "auth", NoBearer,
                      [Username |-> ba.username, Password |-> ba.password], w)

handleBasicAuth(w, r) ==
    LET ba == parseBasicAuth(HeaderGet(r.header, "Authorization"))
    IN  IF ~ba.ok THEN mwResult(FALSE, "none", NoBearer, NoAuthHeader, challengeAuth(w, r))
        ELSE IF ParseUsername(ba.username).err # ErrNone
        THEN mwResult(FALSE, "none", NoBearer, NoAuthHeader,
                      mwWriteErrorResponse(w, "UNAUTHORIZED", "Invalid username format", 401))
        ELSE mwResult(TRUE, "auth", NoBearer,
                      [Username |-> ba.username, Password |-> ba.password], w)

\* a middleware without the exemption of the version-check path
DockerRegistryAuth_NoExemption(w, r) ==
    IF HeaderGet(r.header, "Authorization") = ""
    THEN mwResult(FALSE, "none", NoBearer, NoAuthHeader, challengeAuth(w, r))
    ELSE IF HasPrefix(HeaderGet(r.header, "Authorization"), "Bearer ")
    THEN handleBearerAuth(w, r)
    ELSE handleBasicAuth(w, r)

DockerRegistryAuth(w, r) ==
    IF r.path = "/v2/" THEN mwResult(TRUE, "none", NoBearer, NoAuthHeader, w)
    ELSE IF HeaderGet(r.header, "Authorization") = ""
    THEN mwResult(FALSE, "none", NoBearer, NoAuthHeader, challengeAuth(w, r))
    ELSE IF HasPrefix(HeaderGet(r.header, "Authorization"), "Bearer ")
    THEN handleBearerAuth(w, r)
    ELSE handleBasicAuth(w, r)

(***************************************************************************)
(* pkg/cache/cache.go: CredentialCache over go-cache.  The cache is a map  *)
(* from key to [Object, Expiration]; an item is visible to Get as long as  *)
(* the clock has not passed its Expiration.                                *)
(***************************************************************************)
NoCredentials == [Username |-> "", Password |-> "", Email |-> ""]

NoItems == [k \in {} |-> [Object |-> NoCredentials, Expiration |-> 0]]

\* SHA-256 in hex, taken to be free of collisions: distinct inputs give distinct digests
sha256Hex(s) == "sha256<" \o s \o ">"

generateCacheKey(vaultToken, vaultPath) == "creds:" \o sha256Hex(vaultToken \o ":" \o vaultPath)

\* go-cache's expiry test, made on every read and by the janitor
Expired(item, t) == item.Expiration > 0 /\ t > item.Expiration

\* CredentialCache.Get at time t
Get(c, t, vaultToken, vaultPath) ==
    LET key == generateCacheKey(vaultToken, vaultPath)
    IN  IF key \in DOMAIN c /\ ~Expired(c[key], t)
        THEN [found |-> TRUE, creds |-> c[key].Object]
        ELSE [found |-> FALSE, creds |-> NoCredentials]

\* a SetWithTTL that leaves an entry already in the cache as it is (go-cache's Add)
SetWithTTL_KeepsExisting(c, t, vaultToken, vaultPath, credentials, ttl) ==
    LET key == generateCacheKey(vaultToken, vaultPath)
    IN  [k \in DOMAIN c \cup {key} |->
            IF k \in DOMAIN c THEN c[k]
            ELSE [Object |-> credentials, Expiration |-> t + ttl]]

\* CredentialCache.SetWithTTL at time t
SetWithTTL(c, t, vaultToken, vaultPath, credentials, ttl) ==
    LET key == generateCacheKey(vaultToken, vaultPath)
    IN  [k \in DOMAIN c \cup {key} |->
            IF k = key THEN [Object |-> credentials, Expiration |-> t + ttl] ELSE c[k]]

\* a Set that stores nothing
Set_NotStored(c, t, vaultToken, vaultPath, credentials) == c

\* CredentialCache.Set at time t: the default expiration of NewCredentialCache
Set(c, t, vaultToken, vaultPath, credentials) ==
    SetWithTTL(c, t, vaultToken, vaultPath, credentials, DefaultCacheTTL)

\* CredentialCache.Delete
Delete(c, vaultToken, vaultPath) ==
    [k \in DOMAIN c \ {generateCacheKey(vaultToken, vaultPath)} |-> c[k]]

\* CredentialCache.Clear
Clear(c) == NoItems

\* the janitor's DeleteExpired at time t
DeleteExpired(c, t) == [k \in {x \in DOMAIN c : ~Expired(c[x], t)} |-> c[k]]

(***************************************************************************)
(* pkg/vault: the secret store behind Client.GetCredentials.  A secret's   *)
(* data maps field names to values; a value is a string or something else. *)
(***************************************************************************)
Str(s) == [isString |-> TRUE, s |-> s]

\* the store's valid tokens
ValidTokens == {"tokA", "tokB"}

\* a value that is not a string (a number, a list)
NotStr == [isString |-> FALSE, s |-> ""]

\* secrets an operator may write besides those of docker/init-vault.sh: fields empty,
\* absent or not strings
OtherSecrets ==
    [p \in {"empty-username", "empty-password", "no-password", "numeric-username",
            "numeric-email"} |->
        IF p = "empty-username"
        THEN [n \in {"username", "password"} |-> IF n = "username" THEN Str("") ELSE Str("pw")]
        ELSE IF p = "empty-password"
        THEN [n \in {"username", "password"} |-> IF n = "username" THEN Str("user") ELSE Str("")]
        ELSE IF p = "no-password"
        THEN [n \in {"username", "email"} |-> IF n = "username" THEN Str("user") ELSE Str("e@x")]
        ELSE IF p = "numeric-username"
        THEN [n \in {"username", "password"} |-> IF n = "username" THEN NotStr ELSE Str("pw")]
        ELSE [n \in {"username", "password", "email"} |->
                 IF n = "username" THEN Str("user")
                 ELSE IF n = "password" THEN Str("pw") ELSE NotStr]]

\* the secrets of generation v, by path, as docker/init-vault.sh writes them; a rotation
\* changes the passwords; a path outside the domain has no secret
VaultData(v) ==
    [p \in {"docker-hub", "aws-ecr"} \cup DOMAIN OtherSecrets |->
        IF p \in DOMAIN OtherSecrets THEN OtherSecrets[p]
        ELSE IF p = "docker-hub"
        THEN [n \in {"username", "password", "email"} |->
                 IF n = "username" THEN Str("your-docker-username")
                 ELSE IF n = "password"
                 THEN Str(IF v = 1 THEN "your-docker-password"
                          ELSE "your-docker-password-v" \o ToString(v))
                 ELSE Str("your-email@example.com")]
        ELSE [n \in {"username", "password"} |->
                 IF n = "username" THEN Str("AWS")
                 ELSE Str(IF v = 1 THEN "your-ecr-token"
                          ELSE "your-ecr-token-v" \o ToString(v))]]

\* Client.GetCredentials with the client's token tok, against generation v of the store;
\* reachable tells whether the store answers at all
GetCredentials(tok, v, vaultPath, reachable) ==
    IF ~reachable
    THEN [err |-> "secret not found in Vault: connection refused", creds |-> NoCredentials]
    ELSE IF tok \notin ValidTokens
    THEN [err |-> "secret not found in Vault: permission denied", creds |-> NoCredentials]
    ELSE IF vaultPath \notin DOMAIN VaultData(v)
    THEN [err |-> "secret not found in Vault", creds |-> NoCredentials]
    ELSE LET data == VaultData(v)[vaultPath]
         IN  IF ~("username" \in DOMAIN data /\ data["username"].isString)
             THEN [err |-> "username not found in secret", creds |-> NoCredentials]
             ELSE IF ~("password" \in DOMAIN data /\ data["password"].isString)
             THEN [err |-> "password not found in secret", creds |-> NoCredentials]
             ELSE [err |-> ErrNone,
                   creds |-> [Username |-> data["username"].s,
                              Password |-> data["password"].s,
                              Email |-> IF "email" \in DOMAIN data /\ data["email"].isString
                                        THEN data["email"].s ELSE ""]]

(***************************************************************************)
(* main.go: the routes, and the requests the model sends.                  *)
(***************************************************************************)
\* setupRoutes: the handler a GET of urlPath is dispatched to
Route(urlPath) ==
    LET parts == Split(TrimPrefix(urlPath, "/v2/"), "/")
        n     == Len(parts)
    IN  IF urlPath = "/v2/" THEN "APIVersionCheck"
        ELSE IF urlPath = "/v2/_catalog" THEN "GetCatalog"
        ELSE IF HasPrefix(urlPath, "/v2/") /\ HasSuffix(urlPath, "/tags/list") THEN "GetTags"
        ELSE IF HasPrefix(urlPath, "/v2/") /\ n >= 3 /\ parts[n - 1] = "manifests" /\ parts[n] # ""
        THEN "GetManifest"
        ELSE IF HasPrefix(urlPath, "/v2/") /\ n >= 3 /\ parts[n - 1] = "blobs" /\ parts[n] # ""
        THEN "GetBlob"
        ELSE "NotFound"

NoRequest == [method |-> "", path |-> "", query |-> "", header |-> NoHeader]

Request(method, path, query, header) ==
    [method |-> method, path |-> path, query |-> query, header |-> header]

Authz(value) == [n \in {"Authorization"} |-> value]

HubLocator == "docker;docker-hub;registry.hub.docker.com"
MirrorLocator == "docker;docker-hub;mirror.example.com"
EcrLocator == "ecr;aws-ecr;123456789.dkr.ecr.us-east-1.amazonaws.com"
MissingLocator == "docker;no-such-secret;registry.hub.docker.com"

CatalogPath == "/v2/_catalog"
TagsPath == "/v2/library/nginx/tags/list"
ManifestPath == "/v2/myrepo/manifests/latest"
BlobPath == "/v2/myrepo/blobs/sha256:abc"

\* requests that present no usable credentials
NoCredsRequests ==
    {Request("GET", TagsPath, "", h) :
        h \in {NoHeader, Authz("Bearer "), Authz("Digest abc"), Authz("Basic !!!")}}
    \cup {Request("GET", p, "", NoHeader) : p \in {CatalogPath, ManifestPath}}

\* requests to the version-check endpoint
VersionRequests ==
    {Request("GET", "/v2/", "", h) :
        h \in {NoHeader, Authz("Bearer tok"), Authz("Digest abc"),
               Authz(basicAuthValue(HubLocator, "tokA")),
               Authz(basicAuthValue("docker;docker-hub", "tokA"))}}

\* Bearer requests: the override header and the cookie, present, empty or absent
BearerRequests ==
    {Request("GET", CatalogPath, "", HeaderSet(h, "Authorization", "Bearer tok")) :
        h \in {NoHeader,
               [n \in {"X-Registry-URL"} |-> "override.example.com"],
               [n \in {"Cookie"} |-> "registry-url=cookie.example.com"],
               [n \in {"Cookie"} |-> "theme=dark; registry-url="],
               [n \in {"X-Registry-URL", "Cookie"} |->
                   IF n = "Cookie" THEN "registry-url=cookie.example.com"
                   ELSE "http://override.example.com"],
               [n \in {"X-Registry-URL", "Cookie"} |->
                   IF n = "Cookie" THEN "registry-url=cookie.example.com" ELSE ""]}}
    \cup {Request("GET", p, "",
                  [n \in {"Authorization", "X-Registry-URL"} |->
                      IF n = "Authorization" THEN "Bearer tok" ELSE "override.example.com"]) :
            p \in {TagsPath, ManifestPath, BlobPath}}

\* Basic requests whose username is no locator
BadLocatorRequests ==
    {Request("GET", TagsPath, "", Authz(basicAuthValue(u, "tokA"))) :
        u \in {"docker;docker-hub", "quay;docker-hub;quay.io"}}

\* Basic requests with a locator: the endpoints, two tokens, a rejected token,
\* two registries behind one secret, a second secret, a path that holds no secret
BasicRequests ==
    {Request("GET", p, "", Authz(basicAuthValue(HubLocator, "tokA"))) :
        p \in {ManifestPath}}
    \cup {Request("GET", TagsPath, "n=10",
                  [n \in {"Authorization", "Accept", "Cookie"} |->
                      IF n = "Authorization" THEN basicAuthValue(HubLocator, "tokA")
                      ELSE IF n = "Accept" THEN "application/json"
                      ELSE "registry-url=cookie.example.com"])}
    \cup {Request("GET", CatalogPath, "", Authz(basicAuthValue(c[1], c[2]))) :
            c \in {<<HubLocator, "tokA">>, <<HubLocator, "tokB">>, <<HubLocator, "expired">>,
                   <<MirrorLocator, "tokA">>, <<EcrLocator, "tokA">>,
                   <<MissingLocator, "tokA">>}}

\* Basic requests for secrets of every shape
SecretRequests ==
    {Request("GET", CatalogPath, "",
             Authz(basicAuthValue("docker;" \o p \o ";registry.hub.docker.com", "tokA"))) :
        p \in {"docker-hub", "aws-ecr"} \cup DOMAIN OtherSecrets}

Requests ==
    NoCredsRequests \cup VersionRequests \cup BearerRequests
        \cup BadLocatorRequests \cup BasicRequests

(***************************************************************************)
(* The state.                                                              *)
(***************************************************************************)
VARIABLES
    items,       \* the credential cache: key -> [Object, Expiration]
    now,         \* the clock, in minutes
    swept,       \* how many times the cache's janitor has run
    vaultToken,  \* the token of the shared secret-store client
    version,     \* the generation of the secrets the store holds
    fetchCount,  \* secret-store fetches made so far, by all requests
    req,         \* the requests: where each one is and what it has done
    call,        \* the last direct call of a package's API, with what it returned
    lastSet,     \* when each (token, path) was last Set by a direct call; -1: never
    wrapperCache \* the cache a CacheWrapper owns, apart from the proxy's

vars ==
    <<items, now, swept, vaultToken, version, fetchCount, req, call, lastSet, wrapperCache>>

ReqIds == 1..MaxReq

NoUpstream == [method |-> "", url |-> "", header |-> NoHeader]

\* the tokens, paths and credentials of the direct cache calls
CacheTokens == {"a", "a:b"}
CachePaths == {"c", "b:c"}
CacheCreds ==
    {[Username |-> "u1", Password |-> "p1", Email |-> ""],
     [Username |-> "u2", Password |-> "p2", Email |-> "u2@example.com"]}

NoFound == [found |-> FALSE, creds |-> NoCredentials]

\* a direct call: the operation, its arguments a and b, the time it was made at, the
\* credentials passed or returned, whether it found (Get) or invoked next (middleware),
\* what Get answered for the pair just before (Set), the request header and the
\* response written (middleware), the parts an input was put together from and the
\* error and locator returned (ParseUsername)
NoCall ==
    [op |-> "none", a |-> "", b |-> "", at |-> 0, creds |-> NoCredentials,
     found |-> FALSE, had |-> NoFound, header |-> NoHeader, w |-> NoResponse,
     parts |-> <<>>, err |-> ErrNone, cfg |-> NoRegistryConfig]

\* a request slot before its request has arrived.  ops counts what the request has
\* done to the shared state: SetToken, cache Get, store fetch, cache Set, upstream call;
\* outcome is how httpClient.Do ended; concurrent tells whether another request was
\* being served when this one arrived
IdleRequest ==
    [pc |-> "idle", in |-> NoRequest, ctx |-> "none", handler |-> "",
     bearer |-> NoBearer, password |-> "", cfg |-> NoRegistryConfig,
     targetPath |-> "", creds |-> NoCredentials, hit |-> FALSE,
     fetchTok |-> "", setAt |-> -1,
     ops |-> [tok |-> 0, get |-> 0, fetch |-> 0, set |-> 0, up |-> 0],
     up |-> NoUpstream, outcome |-> "", concurrent |-> FALSE, w |-> NoResponse]

\* a request that is being served
InFlight(q) == q.pc \notin {"idle", "done"}

Init ==
    /\ items = NoItems
    /\ now = 0
    /\ swept = 0
    /\ vaultToken = ""
    /\ version = 1
    /\ fetchCount = 0
    /\ req = [r \in ReqIds |-> IdleRequest]
    /\ call = NoCall
    /\ lastSet = [k \in CacheTokens \X CachePaths |-> -1]
    /\ wrapperCache = NoItems

(***************************************************************************)
(* pkg/registry: the endpoint handlers.                                    *)
(***************************************************************************)
\* the sub-path each handler forwards to
TargetPath(handler, urlPath) ==
    IF handler = "GetCatalog" THEN "/_catalog"
    ELSE IF handler = "GetTags"
    THEN "/" \o TrimSuffix(TrimPrefix(urlPath, "/v2/"), "/tags/list") \o "/tags/list"
    ELSE TrimPrefix(urlPath, "/v2")

\* the target URL of proxyRequest and of proxyBearerRequest
TargetURL(registryURL, targetPath, rawQuery) ==
    (IF ~HasPrefix(registryURL, "http://") /\ ~HasPrefix(registryURL, "https://")
     THEN "https://" \o registryURL ELSE registryURL)
        \o "/v2" \o targetPath
        \o (IF rawQuery # "" THEN "?" \o rawQuery ELSE "")

\* proxyBearerRequest: every inbound header is copied
BearerUpstream(r, bearerAuth, targetPath) ==
    [method |-> r.method,
     url    |-> TargetURL(bearerAuth.RegistryURL, targetPath, r.query),
     header |-> r.header]

\* a proxyRequest that sends to the registry of the default locator, whatever the
\* request's own
BasicUpstream_DefaultRegistry(r, credentials, registryConfig, targetPath) ==
    [method |-> r.method,
     url    |-> TargetURL("registry.hub.docker.com", targetPath, r.query),
     header |-> HeaderSet([n \in DOMAIN r.header \ {"Authorization"} |-> r.header[n]],
                          "Authorization",
                          basicAuthValue(credentials.Username, credentials.Password))]

\* a proxyRequest that copies every inbound header and injects nothing
BasicUpstream_NoInjection(r, credentials, registryConfig, targetPath) ==
    [method |-> r.method,
     url    |-> TargetURL(registryConfig.RegistryURL, targetPath, r.query),
     header |-> r.header]

\* proxyRequest: every inbound header but Authorization, then SetBasicAuth
BasicUpstream(r, credentials, registryConfig, targetPath) ==
    [method |-> r.method,
     url    |-> TargetURL(registryConfig.RegistryURL, targetPath, r.query),
     header |-> HeaderSet([n \in DOMAIN r.header \ {"Authorization"} |-> r.header[n]],
                          "Authorization",
                          basicAuthValue(credentials.Username, credentials.Password))]

\* APIVersionCheck
APIVersionCheck(w) ==
    writeResponse([w EXCEPT !.header = HeaderSet(@, APIVersionHeader, "registry/2.0")],
                  200, NoBody)

\* a handler that resolves credentials for a Bearer request too, with the bearer
\* token as the store's token and the secret named after the registry
HandlerEntry_BearerViaVault(q, mw, handler) ==
    LET ba  == parseBasicAuth(HeaderGet(q.header, "Authorization"))
        pu  == ParseUsername(ba.username)
        rec == [IdleRequest EXCEPT !.in = q, !.ctx = mw.ctx, !.handler = handler,
                                   !.targetPath = TargetPath(handler, q.path),
                                   !.w = mw.w]
    IN  IF mw.ctx = "bearer"
        THEN [rec EXCEPT !.pc = "setToken", !.bearer = mw.bearer,
                         !.password = mw.bearer.Token,
                         !.cfg = [Type |-> "docker", VaultPath |-> "docker-hub",
                                  RegistryURL |-> mw.bearer.RegistryURL]]
        ELSE IF ~ba.ok
        THEN [rec EXCEPT !.pc = "done",
                         !.w = httpError(mw.w, "basic authentication required", 401)]
        ELSE IF pu.err # ErrNone
        THEN [rec EXCEPT !.pc = "done",
                         !.w = httpError(mw.w, "invalid username format: " \o pu.err, 401)]
        ELSE [rec EXCEPT !.pc = "setToken", !.password = ba.password, !.cfg = pu.cfg]

\* the start of an endpoint handler, up to its first use of shared state: the Bearer
\* branch goes to the forwarder; the Basic branch is the head of
\* authenticateAndGetCredentials (BasicAuth, ParseUsername)
HandlerEntry(q, mw, handler) ==
    LET ba  == parseBasicAuth(HeaderGet(q.header, "Authorization"))
        pu  == ParseUsername(ba.username)
        rec == [IdleRequest EXCEPT !.in = q, !.ctx = mw.ctx, !.handler = handler,
                                   !.targetPath = TargetPath(handler, q.path),
                                   !.w = mw.w]
    IN  IF mw.ctx = "bearer"
        THEN [rec EXCEPT !.pc = "forward", !.bearer = mw.bearer]
        ELSE IF ~ba.ok
        THEN [rec EXCEPT !.pc = "done",
                         !.w = httpError(mw.w, "basic authentication required", 401)]
        ELSE IF pu.err # ErrNone
        THEN [rec EXCEPT !.pc = "done",
                         !.w = httpError(mw.w, "invalid username format: " \o pu.err, 401)]
        ELSE [rec EXCEPT !.pc = "setToken", !.password = ba.password, !.cfg = pu.cfg]

\* a request through the middleware and into its handler
Serve(q) ==
    LET mw == DockerRegistryAuth(NoResponse, q)
        handler == Route(q.path)
    IN  IF ~mw.next
        THEN [IdleRequest EXCEPT !.pc = "done", !.in = q, !.w = mw.w]
        ELSE IF handler = "APIVersionCheck"
        THEN [IdleRequest EXCEPT !.pc = "done", !.in = q, !.handler = handler,
                                 !.w = APIVersionCheck(mw.w)]
        ELSE HandlerEntry(q, mw, handler)

\* a request arrives; the slots are taken in order
Arrive(r) ==
    /\ req[r].pc = "idle"
    /\ \A s \in ReqIds : s < r => req[s].pc # "idle"
    /\ \E q \in Requests :
          req' = [req EXCEPT ![r] = [Serve(q) EXCEPT !.concurrent =
                                        \E s \in ReqIds \ {r} : InFlight(req[s])]]
    /\ UNCHANGED <<items, now, swept, vaultToken, version, fetchCount, call, lastSet, wrapperCache>>

\* a SetToken that keeps a token the shared client already holds
SetToken_KeepsFirst(r) ==
    /\ req[r].pc = "setToken"
    /\ vaultToken' = IF vaultToken = "" THEN req[r].password ELSE vaultToken
    /\ req' = [req EXCEPT ![r].pc = "cacheGet", ![r].ops.tok = @ + 1]
    /\ UNCHANGED <<items, now, swept, version, fetchCount, call, lastSet, wrapperCache>>

\* authenticateAndGetCredentials: p.vaultClient.SetToken(password)
SetToken(r) ==
    /\ req[r].pc = "setToken"
    /\ vaultToken' = req[r].password
    /\ req' = [req EXCEPT ![r].pc = "cacheGet", ![r].ops.tok = @ + 1]
    /\ UNCHANGED <<items, now, swept, version, fetchCount, call, lastSet, wrapperCache>>

\* a lookup that renews the lifetime of the entry it finds
CacheLookup_RenewsOnHit(r) ==
    /\ req[r].pc = "cacheGet"
    /\ LET got == Get(items, now, req[r].password, req[r].cfg.VaultPath)
       IN  /\ req' = [req EXCEPT ![r].pc = IF got.found THEN "forward" ELSE "fetch",
                                 ![r].hit = got.found,
                                 ![r].creds = got.creds,
                                 ![r].ops.get = @ + 1]
           /\ items' = IF got.found
                       THEN Set(items, now, req[r].password, req[r].cfg.VaultPath, got.creds)
                       ELSE items
    /\ UNCHANGED <<now, swept, vaultToken, version, fetchCount, call, lastSet, wrapperCache>>

\* authenticateAndGetCredentials: p.cache.Get(password, VaultPath)
CacheLookup(r) ==
    /\ req[r].pc = "cacheGet"
    /\ LET got == Get(items, now, req[r].password, req[r].cfg.VaultPath)
       IN  req' = [req EXCEPT ![r].pc = IF got.found THEN "forward" ELSE "fetch",
                              ![r].hit = got.found,
                              ![r].creds = got.creds,
                              ![r].ops.get = @ + 1]
    /\ UNCHANGED <<items, now, swept, vaultToken, version, fetchCount, call, lastSet, wrapperCache>>

\* a Fetch that looks into the cache once more and takes what another request has
\* stored in the meantime
Fetch_Coalesced(r) ==
    /\ req[r].pc = "fetch"
    /\ LET had == Get(items, now, req[r].password, req[r].cfg.VaultPath)
       IN  IF had.found
           THEN /\ req' = [req EXCEPT ![r].pc = "forward", ![r].creds = had.creds]
                /\ UNCHANGED fetchCount
           ELSE /\ fetchCount' = fetchCount + 1
                /\ \E reachable \in BOOLEAN :
                    LET got == GetCredentials(vaultToken, version, req[r].cfg.VaultPath,
                                              reachable)
                    IN  req' = [req EXCEPT
                            ![r].ops.fetch = @ + 1,
                            ![r].fetchTok = vaultToken,
                            ![r].creds = got.creds,
                            ![r].pc = IF got.err = ErrNone THEN "cacheSet" ELSE "done",
                            ![r].w = IF got.err = ErrNone THEN @
                                     ELSE httpError(@,
                                              "failed to retrieve credentials from Vault: "
                                                  \o got.err, 401)]
    /\ UNCHANGED <<items, now, swept, vaultToken, version, call, lastSet, wrapperCache>>

\* a Fetch that waits while another request's upstream call is outstanding, as under
\* a lock held across the upstream call
Fetch_WaitsForUpstream(r) ==
    /\ req[r].pc = "fetch"
    /\ \A s \in ReqIds \ {r} : req[s].pc # "upstream"
    /\ fetchCount' = fetchCount + 1
    /\ \E reachable \in BOOLEAN :
        LET got == GetCredentials(vaultToken, version, req[r].cfg.VaultPath, reachable)
        IN  req' = [req EXCEPT
                ![r].ops.fetch = @ + 1,
                ![r].fetchTok = vaultToken,
                ![r].creds = got.creds,
                ![r].pc = IF got.err = ErrNone THEN "cacheSet" ELSE "done",
                ![r].w = IF got.err = ErrNone THEN @
                         ELSE httpError(@, "failed to retrieve credentials from Vault: "
                                               \o got.err, 401)]
    /\ UNCHANGED <<items, now, swept, vaultToken, version, call, lastSet, wrapperCache>>

\* a Fetch that stores the empty credentials of a failed fetch in the cache
Fetch_CachesFailure(r) ==
    /\ req[r].pc = "fetch"
    /\ fetchCount' = fetchCount + 1
    /\ \E reachable \in BOOLEAN :
        LET got == GetCredentials(vaultToken, version, req[r].cfg.VaultPath, reachable)
        IN  /\ req' = [req EXCEPT
                    ![r].ops.fetch = @ + 1,
                    ![r].fetchTok = vaultToken,
                    ![r].creds = got.creds,
                    ![r].pc = IF got.err = ErrNone THEN "cacheSet" ELSE "done",
                    ![r].w = IF got.err = ErrNone THEN @
                             ELSE httpError(@, "failed to retrieve credentials from Vault: "
                                                   \o got.err, 401)]
            /\ items' = IF got.err = ErrNone THEN items
                        ELSE Set(items, now, req[r].password, req[r].cfg.VaultPath, got.creds)
    /\ UNCHANGED <<now, swept, vaultToken, version, call, lastSet, wrapperCache>>

\* a Fetch whose handler reports the store's error as an internal server error
Fetch_InternalServerError(r) ==
    /\ req[r].pc = "fetch"
    /\ fetchCount' = fetchCount + 1
    /\ \E reachable \in BOOLEAN :
        LET got == GetCredentials(vaultToken, version, req[r].cfg.VaultPath, reachable)
        IN  req' = [req EXCEPT
                ![r].ops.fetch = @ + 1,
                ![r].fetchTok = vaultToken,
                ![r].creds = got.creds,
                ![r].pc = IF got.err = ErrNone THEN "cacheSet" ELSE "done",
                ![r].w = IF got.err = ErrNone THEN @
                         ELSE httpError(@, "failed to retrieve credentials from Vault: "
                                               \o got.err, 500)]
    /\ UNCHANGED <<items, now, swept, vaultToken, version, call, lastSet, wrapperCache>>

\* authenticateAndGetCredentials: p.vaultClient.GetCredentials, with the token the shared
\* client holds at that moment; on an error the handler answers and returns
Fetch(r) ==
    /\ req[r].pc = "fetch"
    /\ fetchCount' = fetchCount + 1
    /\ \E reachable \in BOOLEAN :
        LET got == GetCredentials(vaultToken, version, req[r].cfg.VaultPath, reachable)
        IN  req' = [req EXCEPT
                ![r].ops.fetch = @ + 1,
                ![r].fetchTok = vaultToken,
                ![r].creds = got.creds,
                ![r].pc = IF got.err = ErrNone THEN "cacheSet" ELSE "done",
                ![r].w = IF got.err = ErrNone THEN @
                         ELSE httpError(@, "failed to retrieve credentials from Vault: "
                                               \o got.err, 401)]
    /\ UNCHANGED <<items, now, swept, vaultToken, version, call, lastSet, wrapperCache>>

\* authenticateAndGetCredentials: p.cache.Set(password, VaultPath, credentials)
CacheStore(r) ==
    /\ req[r].pc = "cacheSet"
    /\ items' = Set(items, now, req[r].password, req[r].cfg.VaultPath, req[r].creds)
    /\ req' = [req EXCEPT ![r].pc = "forward", ![r].ops.set = @ + 1, ![r].setAt = now]
    /\ UNCHANGED <<now, swept, vaultToken, version, fetchCount, call, lastSet, wrapperCache>>

\* the upstream's answer, as the forwarder copies it to the client
UpstreamResponse ==
    [status |-> 200,
     header |-> [n \in {"Content-Type", "Docker-Content-Digest"} |->
                    IF n = "Content-Type" THEN "application/json" ELSE "sha256:abc"],
     body   |-> [kind |-> "upstream", code |-> "", message |-> "{\"repositories\":[]}"]]

copyResponse(w, resp) ==
    writeResponse([w EXCEPT !.header =
                       [n \in DOMAIN w.header \cup DOMAIN resp.header |->
                           IF n \in DOMAIN resp.header THEN resp.header[n] ELSE w.header[n]]],
                  resp.status, resp.body)

\* a handler that reports a transport error without the error's text
Forwarded_DropsErrorText(w, outcome) ==
    IF outcome = "transportError"
    THEN httpError(w, "failed to proxy request", 500)
    ELSE IF outcome = "response" THEN copyResponse(w, UpstreamResponse)
    ELSE httpError(copyResponse(w, UpstreamResponse),
                   "failed to proxy request: failed to copy response body: "
                       \o "broken pipe", 500)

\* what the client has been sent once httpClient.Do has returned and the handler has
\* dealt with it: a transport error, a response copied to the client, or a response
\* whose body copy fails after the status was written.  The handler reports an error
\* of proxyRequest / proxyBearerRequest with http.Error
Forwarded(w, outcome) ==
    IF outcome = "transportError"
    THEN httpError(w, "failed to proxy request: failed to forward request: "
                          \o "dial tcp: connection refused", 500)
    ELSE IF outcome = "response" THEN copyResponse(w, UpstreamResponse)
    ELSE httpError(copyResponse(w, UpstreamResponse),
                   "failed to proxy request: failed to copy response body: "
                       \o "broken pipe", 500)

\* a Forward that sends the upstream request once more after a transport error
Forward_RetriesOnce(r) ==
    /\ req[r].pc = "forward"
    /\ \E outcome \in {"transportError", "response", "copyError", "hang"} :
        LET retry == outcome = "transportError" /\ req[r].ops.up = 0
        IN  req' = [req EXCEPT
                ![r].pc = IF retry THEN "forward"
                          ELSE IF outcome = "hang" THEN "upstream" ELSE "done",
                ![r].ops.up = @ + 1,
                ![r].outcome = outcome,
                ![r].up = IF req[r].ctx = "bearer"
                          THEN BearerUpstream(req[r].in, req[r].bearer, req[r].targetPath)
                          ELSE BasicUpstream(req[r].in, req[r].creds, req[r].cfg,
                                             req[r].targetPath),
                ![r].w = IF outcome = "hang" \/ retry THEN @ ELSE Forwarded(@, outcome)]
    /\ UNCHANGED <<items, now, swept, vaultToken, version, fetchCount, call, lastSet, wrapperCache>>

\* proxyRequest / proxyBearerRequest: the upstream request is built and sent, and
\* httpClient.Do returns or, with no timeout set, never does ("hang")
Forward(r) ==
    /\ req[r].pc = "forward"
    /\ \E outcome \in {"transportError", "response", "copyError", "hang"} :
        req' = [req EXCEPT
            ![r].pc = IF outcome = "hang" THEN "upstream" ELSE "done",
            ![r].ops.up = @ + 1,
            ![r].outcome = outcome,
            ![r].up = IF req[r].ctx = "bearer"
                      THEN BearerUpstream(req[r].in, req[r].bearer, req[r].targetPath)
                      ELSE BasicUpstream(req[r].in, req[r].creds, req[r].cfg,
                                         req[r].targetPath),
            ![r].w = IF outcome = "hang" THEN @ ELSE Forwarded(@, outcome)]
    /\ UNCHANGED <<items, now, swept, vaultToken, version, fetchCount, call, lastSet, wrapperCache>>

(***************************************************************************)
(* The environment: the clock, the cache's janitor, the secret store.      *)
(***************************************************************************)
\* time passes: as long as an entry written now stays visible, or a minute longer
Tick ==
    /\ \E d \in {DefaultCacheTTL, DefaultCacheTTL + 1} :
        /\ now + d <= MaxTime
        /\ now' = now + d
    /\ UNCHANGED <<items, swept, vaultToken, version, fetchCount, req, call, lastSet, wrapperCache>>

\* the janitor runs DeleteExpired once per DefaultCleanupInterval, at the tick or later
Sweep ==
    /\ now >= (swept + 1) * DefaultCleanupInterval
    /\ swept' = swept + 1
    /\ items' = DeleteExpired(items, now)
    /\ UNCHANGED <<now, vaultToken, version, fetchCount, req, call, lastSet, wrapperCache>>

\* the secrets are rotated in the store
Rotate ==
    /\ version < MaxVersion
    /\ version' = version + 1
    /\ UNCHANGED <<items, now, swept, vaultToken, fetchCount, req, call, lastSet, wrapperCache>>

Next ==
    \/ \E r \in ReqIds : Arrive(r)
    \/ \E r \in ReqIds : SetToken(r)
    \/ \E r \in ReqIds : CacheLookup(r)
    \/ \E r \in ReqIds : Fetch(r)
    \/ \E r \in ReqIds : CacheStore(r)
    \/ \E r \in ReqIds : Forward(r)
    \/ Tick
    \/ Sweep
    \/ Rotate

Spec == Init /\ [][Next]_vars

(***************************************************************************)
(* The same pipeline against a store that holds secrets of every shape.    *)
(***************************************************************************)
ArriveSecret(r) ==
    /\ req[r].pc = "idle"
    /\ \A s \in ReqIds : s < r => req[s].pc # "idle"
    /\ \E q \in SecretRequests :
          req' = [req EXCEPT ![r] = [Serve(q) EXCEPT !.concurrent =
                                        \E s \in ReqIds \ {r} : InFlight(req[s])]]
    /\ UNCHANGED <<items, now, swept, vaultToken, version, fetchCount, call, lastSet, wrapperCache>>

SecretNext ==
    \/ \E r \in ReqIds : ArriveSecret(r)
    \/ \E r \in ReqIds : SetToken(r)
    \/ \E r \in ReqIds : CacheLookup(r)
    \/ \E r \in ReqIds : Fetch(r)
    \/ \E r \in ReqIds : CacheStore(r)
    \/ \E r \in ReqIds : Forward(r)
    \/ Tick
    \/ Sweep
    \/ Rotate

SecretSpec == Init /\ [][SecretNext]_vars

(***************************************************************************)
(* The cache called directly, as its own tests and any other caller of the *)
(* package would: Set, Get, Delete and Clear on any token and path, while  *)
(* time passes and the janitor runs.                                       *)
(***************************************************************************)
CallSet(t, p, c) ==
    /\ items' = Set(items, now, t, p, c)
    /\ call' = [NoCall EXCEPT !.op = "Set", !.a = t, !.b = p, !.at = now, !.creds = c,
                              !.had = Get(items, now, t, p)]
    /\ lastSet' = [lastSet EXCEPT ![<<t, p>>] = now]
    /\ UNCHANGED <<now, swept, vaultToken, version, fetchCount, req, wrapperCache>>

CallGet(t, p) ==
    /\ LET got == Get(items, now, t, p)
       IN  call' = [NoCall EXCEPT !.op = "Get", !.a = t, !.b = p, !.at = now,
                                  !.creds = got.creds, !.found = got.found,
                                  !.had = IF call.op = "Set" /\ call.a = t /\ call.b = p
                                             /\ call.at = now
                                          THEN call.had ELSE NoFound]
    /\ UNCHANGED <<items, now, swept, vaultToken, version, fetchCount, req, lastSet, wrapperCache>>

CallDelete(t, p) ==
    /\ items' = Delete(items, t, p)
    /\ call' = [NoCall EXCEPT !.op = "Delete", !.a = t, !.b = p, !.at = now]
    /\ UNCHANGED <<now, swept, vaultToken, version, fetchCount, req, lastSet, wrapperCache>>

CallClear ==
    /\ items' = Clear(items)
    /\ call' = [NoCall EXCEPT !.op = "Clear", !.at = now]
    /\ UNCHANGED <<now, swept, vaultToken, version, fetchCount, req, lastSet, wrapperCache>>

CacheNext ==
    \/ \E t \in CacheTokens, p \in CachePaths, c \in CacheCreds : CallSet(t, p, c)
    \/ \E t \in CacheTokens, p \in CachePaths : CallGet(t, p)
    \/ \E t \in CacheTokens, p \in CachePaths : CallDelete(t, p)
    \/ CallClear
    \/ Tick
    \/ Sweep

CacheSpec == Init /\ [][CacheNext]_vars

(***************************************************************************)
(* The pipeline serving Basic requests for one secret while the cache is   *)
(* also read directly, any number of times.                                *)
(***************************************************************************)
TtlRequests ==
    {Request("GET", CatalogPath, "", Authz(basicAuthValue(c[1], c[2]))) :
        c \in {<<HubLocator, "tokA">>, <<MirrorLocator, "tokA">>, <<HubLocator, "tokB">>}}

ArriveTtl(r) ==
    /\ req[r].pc = "idle"
    /\ \A s \in ReqIds : s < r => req[s].pc # "idle"
    /\ \E q \in TtlRequests :
          req' = [req EXCEPT ![r] = [Serve(q) EXCEPT !.concurrent =
                                        \E s \in ReqIds \ {r} : InFlight(req[s])]]
    /\ UNCHANGED <<items, now, swept, vaultToken, version, fetchCount, call, lastSet, wrapperCache>>

TtlNext ==
    \/ \E r \in ReqIds : ArriveTtl(r)
    \/ \E r \in ReqIds : SetToken(r)
    \/ \E r \in ReqIds : CacheLookup(r)
    \/ \E r \in ReqIds : Fetch(r)
    \/ \E r \in ReqIds : CacheStore(r)
    \/ \E r \in ReqIds : Forward(r)
    \/ CallGet("tokA", "docker-hub")
    \/ Tick
    \/ Sweep
    \/ Rotate

TtlSpec == Init /\ [][TtlNext]_vars

(***************************************************************************)
(* Failing fetches: the pipeline serving Basic requests whose fetch can    *)
(* fail, and a CacheWrapper over a getter that can fail, with its own      *)
(* cache.                                                                  *)
(***************************************************************************)
FailRequests ==
    {Request("GET", CatalogPath, "", Authz(basicAuthValue(c[1], c[2]))) :
        c \in {<<MissingLocator, "tokA">>, <<HubLocator, "expired">>, <<HubLocator, "tokA">>}}

ArriveFail(r) ==
    /\ req[r].pc = "idle"
    /\ \A s \in ReqIds : s < r => req[s].pc # "idle"
    /\ \E q \in FailRequests :
          req' = [req EXCEPT ![r] = [Serve(q) EXCEPT !.concurrent =
                                        \E s \in ReqIds \ {r} : InFlight(req[s])]]
    /\ UNCHANGED <<items, now, swept, vaultToken, version, fetchCount, call, lastSet,
                   wrapperCache>>

\* what the wrapped getter answers: an error, or credentials
GetterResults ==
    {[err |-> "getter failed", creds |-> NoCredentials]}
        \cup {[err |-> ErrNone, creds |-> c] : c \in CacheCreds}

\* CacheWrapper.GetCredentials: the cache first, then the getter, whose credentials
\* are stored; had is what the cache answered
CallWrapperGetCredentials(t, p, got) ==
    /\ LET had == Get(wrapperCache, now, t, p)
       IN  IF had.found
           THEN /\ call' = [NoCall EXCEPT !.op = "WrapperGetCredentials", !.a = t, !.b = p,
                                          !.at = now, !.had = had, !.creds = had.creds]
                /\ UNCHANGED wrapperCache
           ELSE IF got.err # ErrNone
           THEN /\ call' = [NoCall EXCEPT !.op = "WrapperGetCredentials", !.a = t, !.b = p,
                                          !.at = now, !.had = had, !.err = got.err]
                /\ UNCHANGED wrapperCache
           ELSE /\ call' = [NoCall EXCEPT !.op = "WrapperGetCredentials", !.a = t, !.b = p,
                                          !.at = now, !.had = had, !.creds = got.creds]
                /\ wrapperCache' = Set(wrapperCache, now, t, p, got.creds)
    /\ UNCHANGED <<items, now, swept, vaultToken, version, fetchCount, req, lastSet>>

FailNext ==
    \/ \E r \in ReqIds : ArriveFail(r)
    \/ \E r \in ReqIds : SetToken(r)
    \/ \E r \in ReqIds : CacheLookup(r)
    \/ \E r \in ReqIds : Fetch(r)
    \/ \E r \in ReqIds : CacheStore(r)
    \/ \E r \in ReqIds : Forward(r)
    \/ \E t \in {"a"}, p \in CachePaths, got \in GetterResults :
          CallWrapperGetCredentials(t, p, got)

FailSpec == Init /\ [][FailNext]_vars

(***************************************************************************)
(* The pipeline under fair scheduling: every handler goroutine that can    *)
(* take its next step eventually takes it.  The secret store and the       *)
(* upstream registry answer or do not: neither call carries a deadline.    *)
(***************************************************************************)
FairRequests ==
    FailRequests \cup {Request("GET", CatalogPath, "", Authz("Bearer tok"))}

ArriveFair(r) ==
    /\ req[r].pc = "idle"
    /\ \A s \in ReqIds : s < r => req[s].pc # "idle"
    /\ \E q \in FairRequests :
          req' = [req EXCEPT ![r] = [Serve(q) EXCEPT !.concurrent =
                                        \E s \in ReqIds \ {r} : InFlight(req[s])]]
    /\ UNCHANGED <<items, now, swept, vaultToken, version, fetchCount, call, lastSet,
                   wrapperCache>>

\* the call to the secret store is made with context.Background() and never returns
FetchHangs(r) ==
    /\ req[r].pc = "fetch"
    /\ fetchCount' = fetchCount + 1
    /\ req' = [req EXCEPT ![r].pc = "vault", ![r].ops.fetch = @ + 1,
                          ![r].fetchTok = vaultToken]
    /\ UNCHANGED <<items, now, swept, vaultToken, version, call, lastSet, wrapperCache>>

FairNext ==
    \/ \E r \in ReqIds : ArriveFair(r)
    \/ \E r \in ReqIds : SetToken(r)
    \/ \E r \in ReqIds : CacheLookup(r)
    \/ \E r \in ReqIds : Fetch(r)
    \/ \E r \in ReqIds : FetchHangs(r)
    \/ \E r \in ReqIds : CacheStore(r)
    \/ \E r \in ReqIds : Forward(r)

FairSpec ==
    /\ Init
    /\ [][FairNext]_vars
    /\ \A r \in ReqIds :
          /\ WF_vars(SetToken(r))
          /\ WF_vars(CacheLookup(r))
          /\ WF_vars(Fetch(r))
          /\ WF_vars(CacheStore(r))
          /\ WF_vars(Forward(r))

(***************************************************************************)
(* One secret behind several registries: the pipeline serving locators     *)
(* that name the same secret with different registry types and URLs.       *)
(***************************************************************************)
GcrLocator == "gcr;docker-hub;gcr.io"

SharedRequests ==
    {Request("GET", CatalogPath, "", Authz(basicAuthValue(c[1], c[2]))) :
        c \in {<<HubLocator, "tokA">>, <<MirrorLocator, "tokA">>, <<GcrLocator, "tokA">>,
               <<HubLocator, "tokB">>}}

ArriveShared(r) ==
    /\ req[r].pc = "idle"
    /\ \A s \in ReqIds : s < r => req[s].pc # "idle"
    /\ \E q \in SharedRequests :
          req' = [req EXCEPT ![r] = [Serve(q) EXCEPT !.concurrent =
                                        \E s \in ReqIds \ {r} : InFlight(req[s])]]
    /\ UNCHANGED <<items, now, swept, vaultToken, version, fetchCount, call, lastSet,
                   wrapperCache>>

SharedNext ==
    \/ \E r \in ReqIds : ArriveShared(r)
    \/ \E r \in ReqIds : SetToken(r)
    \/ \E r \in ReqIds : CacheLookup(r)
    \/ \E r \in ReqIds : Fetch(r)
    \/ \E r \in ReqIds : CacheStore(r)
    \/ \E r \in ReqIds : Forward(r)
    \/ Tick

SharedSpec == Init /\ [][SharedNext]_vars

(***************************************************************************)
(* The middleware called directly on one request, whatever its method.     *)
(***************************************************************************)
Methods == {"GET", "PUT", "DELETE", "POST", "HEAD"}

MwPaths ==
    {"/v2/", "/v2/_catalog", "/v2/myrepo", "/healthz"}
    \cup {"/v2/" \o name \o "/" \o endpoint :
            name \in {"myrepo", "library/nginx"},
            endpoint \in {"tags/list", "manifests/latest", "blobs/sha256:abc",
                          "blobs/uploads/"}}

MwHeaders == {NoHeader, Authz("Bearer "), Authz("Bearer tok")}

MwCall(method, urlPath, header) ==
    /\ LET mw == DockerRegistryAuth(NoResponse, Request(method, urlPath, "", header))
       IN  call' = [NoCall EXCEPT !.op = "DockerRegistryAuth", !.a = method, !.b = urlPath,
                                  !.at = now, !.found = mw.next, !.w = mw.w,
                                  !.header = header]
    /\ UNCHANGED <<items, now, swept, vaultToken, version, fetchCount, req, lastSet, wrapperCache>>

MwNext == \E m \in Methods, p \in MwPaths, h \in MwHeaders : MwCall(m, p, h)

MwSpec == Init /\ [][MwNext]_vars

(***************************************************************************)
(* ParseUsername called directly on strings put together from one to four  *)
(* parts joined by ";", each part a text without surrounding whitespace    *)
(* (possibly empty) between a leading and a trailing run of whitespace.    *)
(***************************************************************************)
PartTexts == {"", "docker", "ecr", "gcr", "quay", "Docker", "secret/docker-hub"}

PartPads == {<<"", "">>, <<" ", " ">>, <<"\t", "\n">>}

Parts == {[lead |-> pad[1], text |-> t, trail |-> pad[2]] : pad \in PartPads, t \in PartTexts}

\* what may follow a third semicolon
FourthParts == {[lead |-> "", text |-> t, trail |-> tr] : t \in {"", "x"}, tr \in {"", " "}}

RawPart(part) == part.lead \o part.text \o part.trail

ParseInputs ==
    {<<a>> : a \in Parts}
    \cup {<<a, b>> : a \in Parts, b \in Parts}
    \cup {<<a, b, c>> : a \in Parts, b \in Parts, c \in Parts}
    \cup {<<a, b, c, d>> : a \in Parts, b \in Parts, c \in Parts, d \in FourthParts}

\* one call: the function keeps no state, so a second call shows nothing new
CallParseUsername(parts) ==
    /\ call = NoCall
    /\ LET username == Join([i \in 1..Len(parts) |-> RawPart(parts[i])], ";")
           got == ParseUsername(username)
       IN  call' = [NoCall EXCEPT !.op = "ParseUsername", !.a = username, !.parts = parts,
                                  !.err = got.err, !.cfg = got.cfg]
    /\ UNCHANGED <<items, now, swept, vaultToken, version, fetchCount, req, lastSet, wrapperCache>>

ParseNext ==
    /\ call = NoCall
    /\ \E parts \in ParseInputs : CallParseUsername(parts)

ParseSpec == Init /\ [][ParseNext]_vars

(***************************************************************************)
(* Properties.                                                             *)
(***************************************************************************)
\* the credentials the store holds for a path in generation v
StoreCreds(v, vaultPath) == GetCredentials("tokA", v, vaultPath, TRUE).creds

SameKey(r1, r2) ==
    /\ req[r1].password = req[r2].password
    /\ req[r1].cfg.VaultPath = req[r2].cfg.VaultPath

\* the requests that populated the cache for r's (token, path) and whose entry is
\* still within its TTL
FreshSetsFor(r) ==
    {r1 \in ReqIds \ {r} :
        /\ req[r1].setAt >= 0
        /\ SameKey(r1, r)
        /\ now <= req[r1].setAt + DefaultCacheTTL}

C1_Inv ==
    \A r \in ReqIds :
        /\ req[r].hit => req[r].ops.fetch = 0 /\ req[r].ops.set = 0
        /\ (req[r].ctx = "auth" /\ req[r].ops.up > 0) =>
              /\ req[r].ops.fetch = (IF req[r].hit THEN 0 ELSE 1)
              /\ req[r].up.header["Authorization"] =
                     basicAuthValue(req[r].creds.Username, req[r].creds.Password)
              /\ ~req[r].hit =>
                     \E v \in 1..version : req[r].creds = StoreCreds(v, req[r].cfg.VaultPath)

C1_Step ==
    \A r \in ReqIds :
        (req[r].pc = "cacheGet" /\ req'[r].pc # "cacheGet" /\ FreshSetsFor(r) # {}) =>
            /\ req'[r].pc = "forward"
            /\ req'[r].hit
            /\ req'[r].creds \in {req[r1].creds : r1 \in FreshSetsFor(r)}
            /\ fetchCount' = fetchCount

\* C1: a Basic-mode request that finds the cache cold fetches from the secret store
\* exactly once and is forwarded with the fetched credentials; a request for the same
\* (token, path) that looks the cache up within the TTL of that entry fetches nothing
\* and is forwarded with the same credentials
C1_FetchOnceThenCached == []C1_Inv /\ [][C1_Step]_vars

C1_Witness ==
    \E r1, r2 \in ReqIds :
        /\ r1 # r2 /\ SameKey(r1, r2)
        /\ req[r1].pc = "done" /\ ~req[r1].hit /\ req[r1].ops.fetch = 1
        /\ req[r1].w.status = 200
        /\ req[r1].in.header["Authorization"] = basicAuthValue(HubLocator, "tokA")
        /\ req[r2].pc = "done" /\ req[r2].hit /\ req[r2].ops.fetch = 0
        /\ req[r2].w.status = 200
        /\ req[r2].creds = req[r1].creds
        /\ req[r2].up.header["Authorization"] = basicAuthValue("your-docker-username", "your-docker-password")
        /\ fetchCount = 1

\* C2: a Set under one (token, path) never makes Get of a different (token, path) find
\* anything: a pair that missed before the Set still misses after it
C2_NoCrossPairHit ==
    [][call'.op = "Set" =>
          \A t \in CacheTokens, p \in CachePaths :
              (<<t, p>> # <<call'.a, call'.b>> /\ ~Get(items, now, t, p).found)
                  => ~Get(items', now', t, p).found]_vars

\* C3: a Get that directly follows Set(t, p, c), on the same pair and at the same
\* time, finds exactly c
C3_SetThenGet ==
    [][(call.op = "Set" /\ call'.op = "Get" /\ call'.a = call.a /\ call'.b = call.b
            /\ call'.at = call.at)
          => (call'.found /\ call'.creds = call.creds)]_vars

C3_Witness ==
    /\ call.op = "Get" /\ call.found
    /\ call.had.found /\ call.had.creds # call.creds

\* C4: once more than the TTL has passed since the last Set(t, p), Get(t, p) misses
C4_MissAfterTTL ==
    \A t \in CacheTokens, p \in CachePaths :
        (lastSet[<<t, p>>] >= 0 /\ now > lastSet[<<t, p>>] + DefaultCacheTTL)
            => ~Get(items, now, t, p).found

IsBearerRequest(q) ==
    /\ HasPrefix(HeaderGet(q.header, "Authorization"), "Bearer ")
    /\ HeaderGet(q.header, "Authorization") # "Bearer "

C5_Inv ==
    \A r \in ReqIds :
        IsBearerRequest(req[r].in) =>
            /\ req[r].ops.tok = 0 /\ req[r].ops.get = 0
            /\ req[r].ops.fetch = 0 /\ req[r].ops.set = 0

C5_Step ==
    \A r \in ReqIds :
        (IsBearerRequest(req'[r].in) /\ req'[r] # req[r]) =>
            /\ items' = items
            /\ vaultToken' = vaultToken
            /\ fetchCount' = fetchCount

\* C5: a request in Bearer mode never sets the shared token, never reads or writes the
\* cache and never fetches from the secret store; each of its steps leaves the cache,
\* the shared token and the fetch count as they were
C5_BearerTouchesNothing == []C5_Inv /\ [][C5_Step]_vars

C5_Witness ==
    \E r \in ReqIds :
        /\ IsBearerRequest(req[r].in) /\ req[r].handler = "GetBlob"
        /\ req[r].pc = "done" /\ req[r].w.status = 200 /\ req[r].ops.up = 1
        /\ items # NoItems /\ vaultToken = "tokA" /\ fetchCount = 1

\* the host a URL names: what follows the scheme, up to the first slash
UrlHost(url) == Split(TrimPrefix(TrimPrefix(url, "https://"), "http://"), "/")[1]

\* C6: a Bearer-mode request with an X-Registry-URL header is forwarded to the host the
\* header names, with the inbound Authorization header unchanged
C6_BearerOverride ==
    \A r \in ReqIds :
        (/\ IsBearerRequest(req[r].in)
         /\ HeaderGet(req[r].in.header, "X-Registry-URL") # ""
         /\ req[r].in.path # "/v2/"
         /\ req[r].pc \in {"upstream", "done"}) =>
            /\ req[r].ops.up = 1
            /\ UrlHost(req[r].up.url) = UrlHost(req[r].in.header["X-Registry-URL"])
            /\ "Authorization" \in DOMAIN req[r].up.header
            /\ req[r].up.header["Authorization"] = req[r].in.header["Authorization"]

C6_Witness ==
    \E r \in ReqIds :
        /\ IsBearerRequest(req[r].in)
        /\ req[r].in.header = [n \in {"Authorization", "X-Registry-URL", "Cookie"} |->
                                  IF n = "Authorization" THEN "Bearer tok"
                                  ELSE IF n = "Cookie" THEN "registry-url=cookie.example.com"
                                  ELSE "http://override.example.com"]
        /\ req[r].pc = "done" /\ req[r].w.status = 200
        /\ req[r].up.url = "http://override.example.com/v2/_catalog"

\* C7: in every upstream request of the injection mode the Authorization header is the
\* Basic encoding of the credentials resolved from the store, the inbound Authorization
\* value appears nowhere in it, and every other inbound header is copied unchanged
C7_InjectedAuthorization ==
    \A r \in ReqIds :
        (req[r].ctx = "auth" /\ req[r].ops.up > 0) =>
            /\ \E v \in 1..version :
                  req[r].up.header["Authorization"] =
                      basicAuthValue(StoreCreds(v, req[r].cfg.VaultPath).Username,
                                     StoreCreds(v, req[r].cfg.VaultPath).Password)
            /\ \A n \in DOMAIN req[r].up.header :
                  req[r].up.header[n] # req[r].in.header["Authorization"]
            /\ DOMAIN req[r].up.header = DOMAIN req[r].in.header
            /\ \A n \in DOMAIN req[r].in.header \ {"Authorization"} :
                  req[r].up.header[n] = req[r].in.header[n]

C7_Witness ==
    \E r \in ReqIds :
        /\ req[r].ctx = "auth" /\ req[r].pc = "done" /\ req[r].w.status = 200
        /\ DOMAIN req[r].in.header = {"Authorization", "Accept", "Cookie"}
        /\ req[r].up.header["Accept"] = "application/json"
        /\ req[r].up.header["Authorization"] = basicAuthValue("your-docker-username", "your-docker-password")
        /\ req[r].up.url = "https://registry.hub.docker.com/v2/library/nginx/tags/list?n=10"

\* a request that presents no usable credentials
NoUsableCredentials(q) ==
    \/ HeaderGet(q.header, "Authorization") = ""
    \/ HeaderGet(q.header, "Authorization") = "Bearer "
    \/ /\ ~HasPrefix(HeaderGet(q.header, "Authorization"), "Bearer ")
       /\ ~parseBasicAuth(HeaderGet(q.header, "Authorization")).ok

\* C8: a request to a path other than /v2/ that presents no usable credentials is
\* answered 401 with a WWW-Authenticate challenge and the API-version header, and its
\* endpoint handler never runs: no fetch, no cache access, no upstream request
C8_ChallengeWithoutHandler ==
    \A r \in ReqIds :
        (req[r].pc # "idle" /\ req[r].in.path # "/v2/" /\ NoUsableCredentials(req[r].in)) =>
            /\ req[r].pc = "done"
            /\ req[r].w.status = 401 /\ req[r].w.writes = 1
            /\ "WWW-Authenticate" \in DOMAIN req[r].w.header
            /\ HasPrefix(req[r].w.header["WWW-Authenticate"], "Bearer realm=")
            /\ APIVersionHeader \in DOMAIN req[r].w.header
            /\ req[r].w.header[APIVersionHeader] = "registry/2.0"
            /\ req[r].handler = ""
            /\ req[r].ops = IdleRequest.ops
            /\ req[r].up = NoUpstream

C8_Witness ==
    /\ \E r \in ReqIds :
          /\ req[r].in = Request("GET", TagsPath, "", Authz("Digest abc"))
          /\ req[r].pc = "done" /\ req[r].w.status = 401
    /\ \E r \in ReqIds :
          /\ req[r].in = Request("GET", TagsPath, "", Authz("Bearer "))
          /\ req[r].pc = "done" /\ req[r].w.status = 401

\* the scope parameter a challenge header ends with
HasScope(challenge, scope) == HasSuffix(challenge, ",scope=\"" \o scope \o "\"")

\* C9: the challenge of a request for /v2/<name>/tags/list without an Authorization
\* header has status 401 and the scope repository:<name>:pull; for library/nginx the
\* scope is repository:library/nginx:pull
C9_TagsScope ==
    \A r \in ReqIds :
        (req[r].pc = "done" /\ req[r].in = Request("GET", TagsPath, "", NoHeader)) =>
            /\ req[r].w.status = 401
            /\ "WWW-Authenticate" \in DOMAIN req[r].w.header
            /\ HasScope(req[r].w.header["WWW-Authenticate"], "repository:library/nginx:pull")

\* the action the registry protocol asks for a manifest, by method
ManifestAction(method) ==
    IF method = "PUT" THEN "push" ELSE IF method = "DELETE" THEN "delete" ELSE "pull"

\* C10: the challenge of a request for /v2/myrepo/manifests/latest has the scope
\* repository:myrepo:<action>, the action being pull for GET, push for PUT, delete for
\* DELETE and pull for any other method
C10_ManifestScope ==
    (/\ call.op = "DockerRegistryAuth" /\ call.b = ManifestPath
     /\ call.w.status = 401) =>
        /\ "WWW-Authenticate" \in DOMAIN call.w.header
        /\ HasScope(call.w.header["WWW-Authenticate"],
                    "repository:myrepo:" \o ManifestAction(call.a))

\* C11: the challenge of a request whose path is exactly /v2/_catalog has the scope
\* registry:catalog:*, whatever the method
C11_CatalogScope ==
    (/\ call.op = "DockerRegistryAuth" /\ call.b = CatalogPath
     /\ call.w.status = 401) =>
        /\ "WWW-Authenticate" \in DOMAIN call.w.header
        /\ HasScope(call.w.header["WWW-Authenticate"], "registry:catalog:*")

C11_Witness ==
    /\ call.op = "DockerRegistryAuth" /\ call.b = CatalogPath /\ call.a = "DELETE"
    /\ call.w.status = 401 /\ ~call.found
    /\ HasScope(call.w.header["WWW-Authenticate"], "registry:catalog:*")

KnownTypes == {"docker", "ecr", "gcr"}

\* C12 as stated: for an input type;path;url whose parts are non-empty after trimming
\* and whose type is docker, ecr or gcr, ParseUsername succeeds with a locator whose
\* three fields equal the three parts of the input exactly
C12_FieldsEqualParts ==
    (/\ call.op = "ParseUsername" /\ Len(call.parts) = 3
     /\ \A i \in 1..3 : call.parts[i].text # ""
     /\ call.parts[1].text \in KnownTypes) =>
        /\ call.err = ErrNone
        /\ call.cfg = [Type |-> RawPart(call.parts[1]), VaultPath |-> RawPart(call.parts[2]),
                       RegistryURL |-> RawPart(call.parts[3])]

\* C12: for an input type;path;url with two semicolons whose parts are non-empty after
\* trimming and whose trimmed type is docker, ecr or gcr, ParseUsername succeeds with a
\* locator whose three fields equal the three parts with their leading and trailing
\* whitespace removed (the parts themselves when they carry none)
C12_FieldsEqualTrimmedParts ==
    (/\ call.op = "ParseUsername" /\ Len(call.parts) = 3
     /\ \A i \in 1..3 : call.parts[i].text # ""
     /\ call.parts[1].text \in KnownTypes) =>
        /\ call.err = ErrNone
        /\ call.cfg = [Type |-> call.parts[1].text, VaultPath |-> call.parts[2].text,
                       RegistryURL |-> call.parts[3].text]

C12_Witness ==
    /\ call.op = "ParseUsername"
    /\ call.a = "\tecr\n; secret/docker-hub ;quay"
    /\ call.err = ErrNone
    /\ call.cfg = [Type |-> "ecr", VaultPath |-> "secret/docker-hub", RegistryURL |-> "quay"]

\* C13 as stated: an input with fewer or more than three semicolon-delimited parts, or
\* with a part that is empty after trimming, fails with ErrInvalidUsernameFormat and
\* yields no locator
C13_NotThreePartsFails ==
    (/\ call.op = "ParseUsername"
     /\ \/ Len(call.parts) # 3
        \/ \E i \in 1..Len(call.parts) : call.parts[i].text = "") =>
        /\ call.err = ErrInvalidUsernameFormat
        /\ call.cfg = NoRegistryConfig

\* C13: an input with fewer than three semicolon-delimited parts, or whose first part,
\* second part or remainder after the second semicolon is empty after trimming, fails
\* with ErrInvalidUsernameFormat and yields no locator (a remainder that holds a
\* semicolon is not empty)
C13_TooFewOrEmptyFails ==
    (/\ call.op = "ParseUsername"
     /\ \/ Len(call.parts) < 3
        \/ call.parts[1].text = ""
        \/ call.parts[2].text = ""
        \/ (Len(call.parts) = 3 /\ call.parts[3].text = "")) =>
        /\ call.err = ErrInvalidUsernameFormat
        /\ call.cfg = NoRegistryConfig

C13_Witness ==
    /\ call.op = "ParseUsername"
    /\ call.a = "docker;  ;quay;x"
    /\ call.err = ErrInvalidUsernameFormat

\* the input yields three parts (the third being all that follows the second
\* semicolon), each non-empty after trimming
YieldsThreeParts(parts) ==
    /\ Len(parts) >= 3
    /\ parts[1].text # "" /\ parts[2].text # ""
    /\ Len(parts) = 3 => parts[3].text # ""

\* C14: ParseUsername fails with ErrUnsupportedRegistryType exactly when the input
\* yields three parts that are non-empty after trimming and the trimmed first part is
\* not docker, ecr or gcr; an input with too few parts or an empty part fails with
\* ErrInvalidUsernameFormat whatever its first part is
C14_UnsupportedExactlyWhen ==
    call.op = "ParseUsername" =>
        /\ (call.err = ErrUnsupportedRegistryType) <=>
              (YieldsThreeParts(call.parts) /\ call.parts[1].text \notin KnownTypes)
        /\ ~YieldsThreeParts(call.parts) => call.err = ErrInvalidUsernameFormat

C14_Witness ==
    /\ call.op = "ParseUsername" /\ call.a = " quay ;secret/docker-hub;Docker"
    /\ call.err = ErrUnsupportedRegistryType

\* C15: a GET request for /v2/ reaches APIVersionCheck and is answered 200 with the
\* API-version header whatever its Authorization header is; it is never challenged
\* and makes no token, cache or store call and no upstream request
C15_VersionCheckExempt ==
    \A r \in ReqIds :
        (req[r].pc # "idle" /\ req[r].in.path = "/v2/") =>
            /\ req[r].pc = "done"
            /\ req[r].handler = "APIVersionCheck"
            /\ req[r].w.status = 200 /\ req[r].w.writes = 1
            /\ HeaderGet(req[r].w.header, APIVersionHeader) = "registry/2.0"
            /\ "WWW-Authenticate" \notin DOMAIN req[r].w.header
            /\ req[r].ops = IdleRequest.ops
            /\ req[r].up = NoUpstream

C15_Witness ==
    /\ \E r \in ReqIds :
          /\ req[r].in = Request("GET", "/v2/", "", NoHeader)
          /\ req[r].w.status = 200
    /\ \E r \in ReqIds :
          /\ req[r].in = Request("GET", "/v2/", "",
                                 Authz(basicAuthValue("docker;docker-hub", "tokA")))
          /\ req[r].w.status = 200

\* the upstream requests made so far
UpstreamsSent == {req[r].up : r \in {r1 \in ReqIds : req[r1].ops.up > 0}}

C16_Inv ==
    \A r \in ReqIds :
        req[r].in \in BadLocatorRequests =>
            /\ req[r].pc = "done"
            /\ req[r].w.status = 401 /\ req[r].w.writes = 1
            /\ req[r].w.body = [kind |-> "json", code |-> "UNAUTHORIZED",
                                message |-> "Invalid username format"]
            /\ req[r].handler = ""
            /\ req[r].ops = IdleRequest.ops
            /\ req[r].up = NoUpstream

C16_Step ==
    \A r \in ReqIds :
        (req'[r].in \in BadLocatorRequests /\ req'[r] # req[r]) =>
            /\ items' = items
            /\ vaultToken' = vaultToken
            /\ fetchCount' = fetchCount
            /\ UpstreamsSent' = UpstreamsSent

\* C16: a Basic request for a path other than /v2/ whose username fails ParseUsername
\* is answered 401 with the message "Invalid username format" and its handler never
\* runs: the request leaves the shared token, the fetch count, the cache and the
\* upstream requests made as they were
C16_BadLocatorRejected == []C16_Inv /\ [][C16_Step]_vars

C16_Witness ==
    /\ \E r \in ReqIds :
          /\ req[r].in = Request("GET", TagsPath, "",
                                 Authz(basicAuthValue("quay;docker-hub;quay.io", "tokA")))
          /\ req[r].w.status = 401
    /\ items # NoItems /\ fetchCount = 1 /\ UpstreamsSent # {}

\* the request's fetch from the secret store failed and the request has been answered
FetchFailed(r) ==
    req[r].pc = "done" /\ req[r].ops.fetch > 0 /\ req[r].ops.set = 0

\* the errors the secret store's client reports: secret not found, token rejected,
\* store unreachable
StoreErrors ==
    {"secret not found in Vault", "secret not found in Vault: permission denied",
     "secret not found in Vault: connection refused"}

\* C17 as stated: a request whose fetch from the secret store fails is answered 500
\* with the raw error text in the body, and no upstream request is made
C17_FetchFailureIs500 ==
    \A r \in ReqIds :
        FetchFailed(r) =>
            /\ req[r].w.status = 500
            /\ \E e \in StoreErrors : HasSuffix(req[r].w.body.message, e)
            /\ req[r].ops.up = 0 /\ req[r].up = NoUpstream

\* C17: a request whose fetch from the secret store fails is answered 401 with a body
\* that carries the raw error text, and no upstream request is made
C17_FetchFailureIs401 ==
    \A r \in ReqIds :
        FetchFailed(r) =>
            /\ req[r].w.status = 401 /\ req[r].w.writes = 1
            /\ \E e \in StoreErrors :
                  req[r].w.body.message = "failed to retrieve credentials from Vault: " \o e
            /\ req[r].ops.up = 0 /\ req[r].up = NoUpstream

C17_Witness ==
    /\ \E r \in ReqIds :
          /\ FetchFailed(r) /\ req[r].w.status = 401
          /\ HasSuffix(req[r].w.body.message, ": secret not found in Vault")
    /\ \E r \in ReqIds :
          /\ FetchFailed(r) /\ req[r].w.status = 401
          /\ HasSuffix(req[r].w.body.message, "permission denied")

\* C18: when the upstream request fails at the transport level, in injection mode and
\* in pass-through mode alike, the client is answered 500 with a body that contains
\* the transport error's text, and nothing of an upstream response (status, headers)
\* is written to the client
C18_TransportErrorIs500 ==
    \A r \in ReqIds :
        (req[r].pc = "done" /\ req[r].outcome = "transportError") =>
            /\ req[r].ctx \in {"auth", "bearer"}
            /\ req[r].w.status = 500 /\ req[r].w.writes = 1
            /\ HasSuffix(req[r].w.body.message, ": dial tcp: connection refused")
            /\ req[r].w.body.kind # "upstream"
            /\ "Docker-Content-Digest" \notin DOMAIN req[r].w.header

C18_Witness ==
    /\ \E r \in ReqIds :
          /\ req[r].ctx = "auth" /\ req[r].outcome = "transportError"
          /\ req[r].w.status = 500
    /\ \E r \in ReqIds :
          /\ req[r].ctx = "bearer" /\ req[r].outcome = "transportError"
          /\ req[r].w.status = 500

\* C19: every error response the proxy originates, 401 or 500, from the middleware or
\* from a handler, has a JSON body {"errors":[{"code": ..., "message": ...}]}
C19_ErrorsAreJSON ==
    \A r \in ReqIds :
        (req[r].pc = "done" /\ req[r].w.status \in {401, 500}) =>
            /\ req[r].w.body.kind = "json"
            /\ req[r].w.body.code # "" /\ req[r].w.body.message # ""
            /\ HeaderGet(req[r].w.header, "Content-Type") = "application/json"

C20_Inv ==
    \A r \in ReqIds :
        /\ req[r].ops.fetch <= 1 /\ req[r].ops.up <= 1
        /\ FetchFailed(r) => (req[r].ops.up = 0 /\ req[r].w.status >= 400)
        /\ (req[r].pc = "done" /\ req[r].outcome = "transportError") =>
              (req[r].ops.up = 1 /\ req[r].w.status >= 400)

\* an answered request takes no further step
C20_Step == \A r \in ReqIds : req[r].pc = "done" => req'[r] = req[r]

\* C20: a request makes at most one fetch from the secret store and at most one
\* upstream request; after a failed fetch or a failed upstream call it makes no
\* second attempt, and the failure is reported to the client
C20_NoRetry == []C20_Inv /\ [][C20_Step]_vars

C20_Witness ==
    /\ \E r \in ReqIds : FetchFailed(r) /\ req[r].ops.fetch = 1 /\ req[r].w.status = 401
    /\ \E r \in ReqIds :
          /\ req[r].pc = "done" /\ req[r].outcome = "transportError"
          /\ req[r].ops.fetch = 1 /\ req[r].ops.up = 1 /\ req[r].w.status = 500

\* the record of a path lacks a username or a password, or holds one that is not a
\* string or is the empty string
MalformedSecret(data) ==
    \E n \in {"username", "password"} :
        \/ n \notin DOMAIN data
        \/ ~data[n].isString
        \/ data[n].s = ""

\* C21: a secret whose username or password is missing, not a string or the empty
\* string makes the resolution fail, is never cached and never used to forward a
\* request; a missing or non-string email is accepted and yields an empty email
C21_MalformedSecretRejected ==
    \A r \in ReqIds :
        /\ (/\ req[r].cfg.VaultPath \in DOMAIN VaultData(version)
            /\ MalformedSecret(VaultData(version)[req[r].cfg.VaultPath])) =>
              /\ req[r].ops.set = 0 /\ req[r].ops.up = 0
              /\ ~req[r].hit
              /\ req[r].ops.fetch > 0 => (req[r].pc = "done" /\ req[r].w.status >= 400)
        /\ (req[r].cfg.VaultPath \in {"aws-ecr", "numeric-email"} /\ req[r].ops.up > 0) =>
              /\ req[r].creds.Username # "" /\ req[r].creds.Password # ""
              /\ req[r].creds.Email = ""

\* no request has arrived while another was being served
OneAtATime == \A r \in ReqIds : ~req[r].concurrent

\* C22: when requests run one at a time, every fetch is made with the token of the
\* request that makes it, so every cache entry under (t, p) was fetched with t; under
\* concurrency a request's fetch can be made with another request's token (witness)
C22_OwnTokenWhenSequential ==
    OneAtATime =>
        \A r \in ReqIds :
            /\ req[r].ops.fetch > 0 => req[r].fetchTok = req[r].password
            /\ req[r].pc = "fetch" => vaultToken = req[r].password

\* request A (token tokA) fetched with the token of request B (tokB), cached the result
\* under (tokA, docker-hub) and was served with it
C22_Witness ==
    \E a \in ReqIds, b \in ReqIds :
        /\ req[a].password = "tokA" /\ req[b].password = "tokB"
        /\ req[a].ops.tok = 1 /\ req[b].ops.tok = 1
        /\ req[a].fetchTok = "tokB"
        /\ req[a].ops.set = 1
        /\ generateCacheKey("tokA", req[a].cfg.VaultPath) \in DOMAIN items
        /\ req[a].pc = "done" /\ req[a].w.status = 200
        /\ req[a].up.header["Authorization"] =
              basicAuthValue(req[a].creds.Username, req[a].creds.Password)

\* the fetches the requests 1..n have made
RECURSIVE FetchesOf(_)
FetchesOf(n) == IF n = 0 THEN 0 ELSE req[n].ops.fetch + FetchesOf(n - 1)

\* the request missed the cache and is past its fetch
PastFetchAfterMiss(r) ==
    /\ req[r].ops.get = 1 /\ ~req[r].hit
    /\ req[r].pc \in {"cacheSet", "forward", "upstream", "done"}

C23_Inv ==
    /\ fetchCount = FetchesOf(MaxReq)
    /\ \A r \in ReqIds :
          PastFetchAfterMiss(r) =>
              /\ req[r].ops.fetch = 1
              /\ (req[r].pc # "cacheSet" /\ ~FetchFailed(r)) => req[r].ops.set = 1

\* a Set leaves its credentials in the cache, and no other step changes an entry
\* (the sweep only removes entries)
C23_Step ==
    /\ \A r \in ReqIds :
          req'[r].ops.set = req[r].ops.set + 1 =>
              /\ generateCacheKey(req[r].password, req[r].cfg.VaultPath) \in DOMAIN items'
              /\ items'[generateCacheKey(req[r].password, req[r].cfg.VaultPath)].Object
                     = req[r].creds
    /\ (\A r \in ReqIds : req'[r].ops.set = req[r].ops.set) =>
          \A k \in DOMAIN items' : k \in DOMAIN items /\ items'[k] = items[k]

\* C23: every request that misses the cache makes its own fetch, also when another
\* request for the same (token, path) has missed and not yet populated the cache (N
\* fetches for N requests), and each then calls Set; the cache holds the credentials
\* of the Set applied last
C23_NoCoalescing == []C23_Inv /\ [][C23_Step]_vars

C23_Witness ==
    \E a \in ReqIds, b \in ReqIds :
        /\ a # b /\ SameKey(a, b) /\ req[b].concurrent
        /\ req[a].ops.fetch = 1 /\ req[b].ops.fetch = 1 /\ fetchCount = 2
        /\ req[a].ops.set = 1 /\ req[b].ops.set = 1
        /\ req[a].setAt = 0 /\ req[b].setAt = 0 /\ now = 0
        /\ req[a].creds # req[b].creds
        /\ items[generateCacheKey(req[b].password, req[b].cfg.VaultPath)].Object
               = req[b].creds

\* the value of the registry-url cookie in the Cookie headers the requests carry
SentCookieValue(header) ==
    IF "Cookie" \notin DOMAIN header THEN ""
    ELSE IF header["Cookie"] = "registry-url=cookie.example.com" THEN "cookie.example.com"
    ELSE ""

\* the host the precedence asks for: the override header, else the cookie, else the
\* default, the default also standing in for an empty value
PrecedenceHost(header) ==
    IF "X-Registry-URL" \in DOMAIN header /\ header["X-Registry-URL"] # ""
    THEN TrimPrefix(TrimPrefix(header["X-Registry-URL"], "https://"), "http://")
    ELSE IF SentCookieValue(header) # "" THEN SentCookieValue(header)
    ELSE "registry-1.docker.io"

\* C24: in Bearer mode the upstream host is the X-Registry-URL header when it is not
\* empty, else the registry-url cookie, else registry-1.docker.io, which also replaces
\* an empty value; the host is never empty
C24_BearerHostPrecedence ==
    \A r \in ReqIds :
        (IsBearerRequest(req[r].in) /\ req[r].pc # "idle" /\ req[r].in.path # "/v2/") =>
            /\ req[r].bearer.RegistryURL # ""
            /\ req[r].ops.up > 0 =>
                  /\ UrlHost(req[r].up.url) = PrecedenceHost(req[r].in.header)
                  /\ UrlHost(req[r].up.url) # ""

C24_Witness ==
    /\ \E r \in ReqIds :
          /\ req[r].in.header = [n \in {"Authorization", "Cookie"} |->
                                    IF n = "Cookie" THEN "theme=dark; registry-url="
                                    ELSE "Bearer tok"]
          /\ req[r].up.url = "https://registry-1.docker.io/v2/_catalog"
    /\ \E r \in ReqIds :
          /\ req[r].in.header = [n \in {"Authorization", "X-Registry-URL", "Cookie"} |->
                                    IF n = "Cookie" THEN "registry-url=cookie.example.com"
                                    ELSE IF n = "X-Registry-URL" THEN ""
                                    ELSE "Bearer tok"]
          /\ req[r].up.url = "https://cookie.example.com/v2/_catalog"

\* an input with a known type, a non-empty path and a semicolon in what follows the
\* second semicolon
SemicolonInThird(parts) ==
    /\ Len(parts) = 4
    /\ parts[1].text \in KnownTypes
    /\ parts[2].text # ""

\* C25 as stated: for such an input parsing succeeds and RegistryURL is the whole
\* remainder after the second semicolon, semicolons included
C25_WholeRemainder ==
    (call.op = "ParseUsername" /\ SemicolonInThird(call.parts)) =>
        /\ call.err = ErrNone
        /\ call.cfg.RegistryURL = RawPart(call.parts[3]) \o ";" \o RawPart(call.parts[4])

\* C25: for such an input parsing succeeds and RegistryURL is the remainder after the
\* second semicolon, semicolons included, without its leading and trailing whitespace
C25_TrimmedRemainder ==
    (call.op = "ParseUsername" /\ SemicolonInThird(call.parts)) =>
        /\ call.err = ErrNone
        /\ call.cfg.Type = call.parts[1].text
        /\ call.cfg.VaultPath = call.parts[2].text
        /\ call.cfg.RegistryURL =
              (IF call.parts[3].text = "" THEN ""
               ELSE call.parts[3].text \o call.parts[3].trail)
                  \o ";" \o call.parts[4].text

C25_Witness ==
    /\ call.op = "ParseUsername"
    /\ call.a = "docker;secret/docker-hub; quay ;x "
    /\ call.err = ErrNone
    /\ call.cfg.RegistryURL = "quay ;x"

\* every Get on a pair other than (t, p) answers after the step as it did before
OtherGetsUnaffected(t, p) ==
    \A t2 \in CacheTokens, p2 \in CachePaths :
        <<t2, p2>> # <<t, p>> => Get(items', now', t2, p2) = Get(items, now, t2, p2)

\* the step is a call of the cache, not the clock or the janitor
C26_CacheCallStep == now' = now /\ swept' = swept /\ call'.at = now

C26_Step ==
    C26_CacheCallStep =>
        /\ call'.op = "Set" =>
              /\ Get(items', now', call'.a, call'.b) = [found |-> TRUE, creds |-> call'.creds]
              /\ OtherGetsUnaffected(call'.a, call'.b)
        /\ call'.op = "Delete" =>
              /\ ~Get(items', now', call'.a, call'.b).found
              /\ OtherGetsUnaffected(call'.a, call'.b)
        /\ call'.op = "Clear" =>
              \A t \in CacheTokens, p \in CachePaths : ~Get(items', now', t, p).found
        /\ call'.op = "Get" => items' = items

\* C26: Set(t, p, c) overwrites the entry of (t, p) and leaves every other pair's entry
\* as it was; Delete(t, p) makes Get(t, p) miss and leaves every other Get unaffected;
\* Clear makes every Get miss; Get never changes the cache; after several Sets on one
\* pair Get returns the value of the Set applied last
C26_CacheFrameEffects == [][C26_Step]_vars

\* the times at which requests have Set the entry of key k
SetTimes(k) ==
    {req[r].setAt : r \in {r1 \in ReqIds :
        /\ req[r1].ops.set = 1
        /\ generateCacheKey(req[r1].password, req[r1].cfg.VaultPath) = k}}

\* a request has Set r's pair at most a TTL ago
SetWithinTTL(r) ==
    \E r1 \in ReqIds \ {r} :
        /\ SameKey(r1, r) /\ req[r1].ops.set = 1
        /\ req[r1].setAt <= now /\ now <= req[r1].setAt + DefaultCacheTTL

C27_Inv ==
    /\ \A k \in DOMAIN items :
          /\ SetTimes(k) # {}
          /\ items[k].Expiration - DefaultCacheTTL \in SetTimes(k)
          /\ \A t \in SetTimes(k) : t + DefaultCacheTTL <= items[k].Expiration
    /\ (call.op = "Get" /\ call.found) =>
          \E t \in SetTimes(generateCacheKey(call.a, call.b)) :
              t <= call.at /\ call.at <= t + DefaultCacheTTL
    /\ \A r \in ReqIds :
          (req[r].ops.get = 1 /\ ~req[r].hit /\ req[r].pc \in {"forward", "upstream", "done"}
              /\ ~FetchFailed(r)) =>
              (req[r].ops.fetch = 1 /\ req[r].ops.set = 1)

C27_Step ==
    /\ (call'.op = "Get" /\ call' # call) => items' = items
    /\ \A r \in ReqIds :
          req'[r].ops.get = req[r].ops.get + 1 =>
              /\ items' = items
              /\ req'[r].hit <=> SetWithinTTL(r)
    /\ \A r \in ReqIds :
          req'[r].ops.set = req[r].ops.set + 1 =>
              items'[generateCacheKey(req[r].password, req[r].cfg.VaultPath)].Expiration
                  = now + DefaultCacheTTL

\* C27: a read never extends an entry's lifetime: an entry expires a TTL after its
\* last Set however often it was read or served a request in between; a request that
\* looks up after the expiry misses, makes one fetch and populates the cache anew
C27_HitsDoNotExtend == []C27_Inv /\ [][C27_Step]_vars

C27_Witness ==
    \E a \in ReqIds, b \in ReqIds :
        /\ a # b /\ SameKey(a, b)
        /\ req[a].setAt = 0
        /\ call.op = "Get" /\ call.found /\ call.at = DefaultCacheTTL
        /\ ~req[b].hit /\ req[b].ops.fetch = 1 /\ req[b].ops.set = 1
        /\ req[b].setAt > DefaultCacheTTL
        /\ fetchCount = 2

\* the request was answered that its fetch from the secret store failed
AnsweredFetchFailure(r) ==
    /\ req[r].pc = "done" /\ req[r].ops.fetch = 1
    /\ HasPrefix(req[r].w.body.message, "failed to retrieve credentials from Vault: ")

\* some request with r's (token, path) has stored credentials in the cache
StoredFor(r) ==
    \E s \in ReqIds :
        /\ req[s].ops.set > 0
        /\ req[s].password = req[r].password
        /\ req[s].cfg.VaultPath = req[r].cfg.VaultPath

C28_Inv ==
    /\ \A r \in ReqIds :
          AnsweredFetchFailure(r) => (req[r].ops.set = 0 /\ req[r].ops.up = 0)
    /\ \A k \in DOMAIN items :
          \E s \in ReqIds :
              /\ req[s].ops.set = 1 /\ req[s].ops.fetch = 1
              /\ k = generateCacheKey(req[s].password, req[s].cfg.VaultPath)
              /\ ~AnsweredFetchFailure(s)
              /\ items[k].Object \in {StoreCreds(v, req[s].cfg.VaultPath) : v \in 1..MaxVersion}

C28_Step ==
    /\ \A r \in ReqIds :
          (req'[r] # req[r] /\ req'[r].ops.set = req[r].ops.set) => items' = items
    /\ \A r \in ReqIds :
          (req'[r].ops.get = req[r].ops.get + 1 /\ ~StoredFor(r)) =>
              (~req'[r].hit /\ req'[r].pc = "fetch")
    /\ (call' # call /\ call'.op = "WrapperGetCredentials") =>
          /\ call'.err # ErrNone =>
                (wrapperCache' = wrapperCache /\ ~Get(wrapperCache', now, call'.a, call'.b).found)
          /\ wrapperCache' # wrapperCache =>
                /\ call'.err = ErrNone /\ ~call'.had.found
                /\ Get(wrapperCache', now, call'.a, call'.b).creds = call'.creds

\* C28: only a successful fetch populates the cache: the steps of a request whose
\* fetch fails leave the cache as it was, a request so answered has stored nothing,
\* every entry was stored by a request whose fetch succeeded, and a request for a
\* (token, path) nobody stored misses and goes on to fetch; a CacheWrapper whose
\* getter returns an error leaves its cache as it was, with no entry for the pair
C28_FailuresNotCached == []C28_Inv /\ [][C28_Step]_vars

C28_Witness ==
    /\ \E a \in ReqIds, b \in ReqIds :
          /\ a < b /\ SameKey(a, b) /\ ~req[b].concurrent
          /\ AnsweredFetchFailure(a) /\ AnsweredFetchFailure(b)
          /\ ~req[b].hit
    /\ fetchCount = 2
    /\ items = NoItems
    /\ call.op = "WrapperGetCredentials" /\ call.err # ErrNone
    /\ wrapperCache = NoItems

\* the request's outstanding call, to the secret store or upstream, never answers
Unanswered(r) == req[r].pc \in {"vault", "upstream"}

Completed(r) == req[r].pc = "done" /\ req[r].w.writes >= 1 /\ req[r].w.status # 0

\* the request's next step can be taken
CanStep(r) ==
    /\ req[r].pc = "setToken" => ENABLED SetToken(r)
    /\ req[r].pc = "cacheGet" => ENABLED CacheLookup(r)
    /\ req[r].pc = "fetch" => ENABLED Fetch(r)
    /\ req[r].pc = "cacheSet" => ENABLED CacheStore(r)
    /\ req[r].pc = "forward" => ENABLED Forward(r)

C29_Inv ==
    \A r \in ReqIds :
        /\ req[r].pc = "done" => Completed(r)
        /\ Unanswered(r) => req[r].w = NoResponse
        /\ CanStep(r)

C29_Step == \A r \in ReqIds : Unanswered(r) => req'[r] = req[r]

C29_Live ==
    \A r \in ReqIds : InFlight(req[r]) ~> (Completed(r) \/ Unanswered(r))

C29_OthersComplete ==
    \A a \in ReqIds, b \in ReqIds :
        (a # b /\ Unanswered(a) /\ InFlight(req[b])) ~> (Completed(b) \/ Unanswered(b))

\* C29: under fair scheduling a request in flight is eventually answered unless its
\* call to the secret store or upstream never answers; a request whose call never
\* answers stays where it is with nothing written to its client; and whatever the
\* others are waiting for, a request's next step can always be taken, so the requests
\* in flight beside an unanswered one still complete
C29_FairCompletion ==
    /\ []C29_Inv
    /\ [][C29_Step]_vars
    /\ C29_Live
    /\ C29_OthersComplete

C29_Witness ==
    \E a \in ReqIds, b \in ReqIds :
        /\ req[a].pc = "upstream" /\ req[a].ops.up = 1
        /\ req[b].concurrent /\ req[b].ops.fetch = 1
        /\ Completed(b) /\ req[b].w.status = 200

\* the locator the request itself carries, as ParseUsername reads it
OwnLocator(r) ==
    ParseUsername(parseBasicAuth(HeaderGet(req[r].in.header, "Authorization")).username).cfg

\* another request, for the same (token, path), stored the credentials r holds
PopulatedBy(s, r) ==
    /\ s # r /\ SameKey(s, r)
    /\ req[s].ops.set = 1 /\ req[s].setAt <= now
    /\ req[s].creds = req[r].creds

C30_Inv ==
    \A r \in ReqIds :
        (req[r].ctx = "auth" /\ req[r].ops.up = 1) =>
            /\ UrlHost(req[r].up.url) = OwnLocator(r).RegistryURL
            /\ HeaderGet(req[r].up.header, "Authorization")
                   = basicAuthValue(req[r].creds.Username, req[r].creds.Password)
            /\ req[r].hit => (req[r].ops.fetch = 0 /\ \E s \in ReqIds : PopulatedBy(s, r))
            /\ ~req[r].hit => req[r].ops.fetch = 1

C30_Step ==
    \A r \in ReqIds :
        req'[r].ops.get = req[r].ops.get + 1 =>
            (req'[r].hit <=>
                \E s \in ReqIds :
                    /\ s # r /\ SameKey(s, r)
                    /\ req[s].ops.set = 1 /\ now <= req[s].setAt + DefaultCacheTTL)

\* C30: a lookup hits exactly when a request with the same (token, path) stored an
\* entry within the TTL, whatever registry type and URL that request named; and an
\* injection-mode request sends the credentials it holds, fetched or cached, to the
\* registry URL of its own locator
C30_OwnRegistryURL == []C30_Inv /\ [][C30_Step]_vars

C30_Witness ==
    \E a \in ReqIds, b \in ReqIds :
        /\ PopulatedBy(a, b) /\ req[b].hit /\ req[b].ops.up = 1
        /\ OwnLocator(a).Type # OwnLocator(b).Type
        /\ UrlHost(req[a].up.url) = "registry.hub.docker.com"
        /\ UrlHost(req[b].up.url) = "gcr.io"
        /\ req[a].up.header["Authorization"] = req[b].up.header["Authorization"]
        /\ fetchCount = 1

\* C31: the proxy writes a status code to the client exactly once per request: a
\* request that has been answered has made one WriteHeader call and has handed the
\* ResponseWriter nothing after the body of that response, also when the copy of the
\* upstream body fails after the upstream status was written
C31_StatusWrittenOnce ==
    \A r \in ReqIds :
        /\ req[r].w.writes <= 1
        /\ req[r].w.appended = ""
        /\ req[r].pc = "done" => req[r].w.writes = 1

====
